---- MODULE Spec2Model ----
(***************************************************************************)
(* A model of the J-Quants client (src/jquantsapi/lib/jquantsapi.py):      *)
(* the token state of JQuantsAPI, the retrying session of                  *)
(* _request_session, the wrappers _get and _post, the pagination loop of   *)
(* the endpoint methods and the normalisation each method applies to the   *)
(* records it fetched.                                                     *)
(*                                                                         *)
(* Encoding of values.  Every JSON scalar is an integer: a date string     *)
(* "YYYY-MM-DD" is the number YYYYMMDD built from its digits, a string     *)
(* pandas reads as a missing date ("", "NaT") is NatString, any other      *)
(* string in the place of a date is 0, any other scalar is a small         *)
(* number.  A token is a positive number, the empty string "" is NoToken.  *)
(* A pandas Timestamp is the number of days since 1970-01-01.  Time is     *)
(* counted in hours since the client was constructed.                      *)
(***************************************************************************)
EXTENDS Integers, Sequences, FiniteSets, TLC

(***************************************************************************)
(* Bounds of the model.                                                    *)
(***************************************************************************)
\* the clock stops at MaxTime hours
MaxTime == 24
\* the server sends at most MaxRecords records in answer to one method call
MaxRecords == 2
\* and at most LoopRecords in the runs that are about the pagination loop alone
LoopRecords == 1
\* at most UnitRecords in answer to one call made by a range fetch
UnitRecords == 1
\* the range fetches that stand alone hold at most MaxUnits dates
MaxUnits == 2

\* direct calls of get_refresh_token and get_id_token are made while the
\* server has issued fewer tokens than this
MaxIssued == 3

(***************************************************************************)
(* Constants of the program.                                               *)
(***************************************************************************)
\* self._refresh_token = "" and self._id_token = "" (lines 36-37)
NoToken == 0
\* pd.Timedelta(23, unit="hour") (line 140)
TokenLifetime == 23
\* Retry(total=3, ...) (line 65)
RetryTotal == 3
\* status_forcelist=[429, 500, 502, 503, 504] (line 51)
status_forcelist == {429, 500, 502, 503, 504}
\* method_whitelist=["HEAD", "GET", "OPTIONS"] (line 52), the default of _get
method_whitelist == {"HEAD", "GET", "OPTIONS"}
\* method_whitelist=["POST"] (line 110), what _post passes
method_whitelist_post == {"POST"}
\* urllib3's Retry.RETRY_AFTER_STATUS_CODES, in force because Retry(...) on
\* lines 64-66 leaves respect_retry_after_header at its default
RETRY_AFTER_STATUS_CODES == {413, 429, 503}

Threads == {"t1", "t2"}

\* get_listed_info: cols (lines 166-180)
cols_get_listed_info ==
    << "Date", "Code", "CompanyNameEnglish", "Sector17Code", "Sector33Code",
       "ScaleCategory", "MarketCode", "MarketCodeName", "MarginCode", "MarginCodeName" >>

\* get_listed_info: cols += (lines 183-183)
cols_plan_get_listed_info ==
    << "MarginCode", "MarginCodeName" >>

\* get_prices_daily_quotes: cols (lines 269-286)
cols_get_prices_daily_quotes ==
    << "Date", "Code", "Open", "High", "Low", "Close", "UpperLimit", "LowerLimit",
       "Volume", "TurnoverValue", "AdjustmentFactor", "AdjustmentOpen",
       "AdjustmentHigh", "AdjustmentLow", "AdjustmentClose", "AdjustmentVolume" >>

\* get_prices_daily_quotes: cols += (lines 288-314)
cols_plan_get_prices_daily_quotes ==
    << "MorningOpen", "MorningHigh", "MorningLow", "MorningClose", "MorningUpperLimit",
       "MorningLowerLimit", "MorningVolume", "MorningTurnoverValue",
       "MorningAdjustmentOpen", "MorningAdjustmentHigh", "MorningAdjustmentLow",
       "MorningAdjustmentClose", "MorningAdjustmentVolume", "AfternoonOpen",
       "AfternoonHigh", "AfternoonLow", "AfternoonClose", "AfternoonUpperLimit",
       "AfternoonLowerLimit", "AfternoonVolume", "AfternoonAdjustmentOpen",
       "AfternoonAdjustmentHigh", "AfternoonAdjustmentLow", "AfternoonAdjustmentClose",
       "AfternoonAdjustmentVolume" >>

\* get_fins_statements: cols (lines 379-486)
cols_get_fins_statements ==
    << "DisclosedDate", "DisclosedTime", "LocalCode", "DisclosureNumber",
       "TypeOfDocument", "TypeOfCurrentPeriod", "CurrentPeriodStartDate",
       "CurrentPeriodEndDate", "CurrentFiscalYearStartDate", "CurrentFiscalYearEndDate",
       "NextFiscalYearStartDate", "NextFiscalYearEndDate", "NetSales",
       "OperatingProfit", "OrdinaryProfit", "Profit", "EarningsPerShare",
       "DilutedEarningsPerShare", "TotalAssets", "Equity", "EquityToAssetRatio",
       "BookValuePerShare", "CashFlowsFromOperatingActivities",
       "CashFlowsFromInvestingActivities", "CashFlowsFromFinancingActivities",
       "CashAndEquivalents", "ResultDividendPerShare1stQuarter",
       "ResultDividendPerShare2ndQuarter", "ResultDividendPerShare3rdQuarter",
       "ResultDividendPerShareFiscalYearEnd", "ResultDividendPerShareAnnual",
       "DistributionsPerUnit(REIT)", "ResultTotalDividendPaidAnnual",
       "ResultPayoutRatioAnnual", "ForecastDividendPerShare1stQuarter",
       "ForecastDividendPerShare2ndQuarter", "ForecastDividendPerShare3rdQuarter",
       "ForecastDividendPerShareFiscalYearEnd", "ForecastDividendPerShareAnnual",
       "ForecastDistributionsPerUnit(REIT)", "ForecastTotalDividendPaidAnnual",
       "ForecastPayoutRatioAnnual", "NextYearForecastDividendPerShare1stQuarter",
       "NextYearForecastDividendPerShare2ndQuarter",
       "NextYearForecastDividendPerShare3rdQuarter",
       "NextYearForecastDividendPerShareFiscalYearEnd",
       "NextYearForecastDividendPerShareAnnual",
       "NextYearForecastDistributionsPerUnit(REIT)",
       "NextYearForecastPayoutRatioAnnual", "ForecastNetSales2ndQuarter",
       "ForecastOperatingProfit2ndQuarter", "ForecastOrdinaryProfit2ndQuarter",
       "ForecastProfit2ndQuarter", "ForecastEarningsPerShare2ndQuarter",
       "NextYearForecastNetSales2ndQuarter",
       "NextYearForecastOperatingProfit2ndQuarter",
       "NextYearForecastOrdinaryProfit2ndQuarter", "NextYearForecastProfit2ndQuarter",
       "NextYearForecastEarningsPerShare2ndQuarter", "ForecastNetSales",
       "ForecastOperatingProfit", "ForecastOrdinaryProfit", "ForecastProfit",
       "ForecastEarningsPerShare", "NextYearForecastNetSales",
       "NextYearForecastOperatingProfit", "NextYearForecastOrdinaryProfit",
       "NextYearForecastProfit", "NextYearForecastEarningsPerShare",
       "MaterialChangesInSubsidiaries", "ChangesBasedOnRevisionsOfAccountingStandard",
       "ChangesOtherThanOnesBasedOnRevisionsOfAccountingStandard",
       "ChangesInAccountingEstimates", "RetrospectiveRestatement",
       "NumberOfIssuedAndOutstandingSharesAtTheEndOfFiscalYearIncludingTreasuryStock",
       "NumberOfTreasuryStockAtTheEndOfFiscalYear", "AverageNumberOfShares",
       "NonConsolidatedNetSales", "NonConsolidatedOperatingProfit",
       "NonConsolidatedOrdinaryProfit", "NonConsolidatedProfit",
       "NonConsolidatedEarningsPerShare", "NonConsolidatedTotalAssets",
       "NonConsolidatedEquity", "NonConsolidatedEquityToAssetRatio",
       "NonConsolidatedBookValuePerShare", "ForecastNonConsolidatedNetSales2ndQuarter",
       "ForecastNonConsolidatedOperatingProfit2ndQuarter",
       "ForecastNonConsolidatedOrdinaryProfit2ndQuarter",
       "ForecastNonConsolidatedProfit2ndQuarter",
       "ForecastNonConsolidatedEarningsPerShare2ndQuarter",
       "NextYearForecastNonConsolidatedNetSales2ndQuarter",
       "NextYearForecastNonConsolidatedOperatingProfit2ndQuarter",
       "NextYearForecastNonConsolidatedOrdinaryProfit2ndQuarter",
       "NextYearForecastNonConsolidatedProfit2ndQuarter",
       "NextYearForecastNonConsolidatedEarningsPerShare2ndQuarter",
       "ForecastNonConsolidatedNetSales", "ForecastNonConsolidatedOperatingProfit",
       "ForecastNonConsolidatedOrdinaryProfit", "ForecastNonConsolidatedProfit",
       "ForecastNonConsolidatedEarningsPerShare",
       "NextYearForecastNonConsolidatedNetSales",
       "NextYearForecastNonConsolidatedOperatingProfit",
       "NextYearForecastNonConsolidatedOrdinaryProfit",
       "NextYearForecastNonConsolidatedProfit",
       "NextYearForecastNonConsolidatedEarningsPerShare" >>

\* get_fins_announcement: cols (lines 530-538)
cols_get_fins_announcement ==
    << "Date", "Code", "CompanyName", "FiscalYear", "SectorName", "FiscalQuarter",
       "Section" >>

\* get_options: cols (lines 622-653)
cols_get_options ==
    << "Date", "Code", "WholeDayOpen", "WholeDayHigh", "WholeDayLow", "WholeDayClose",
       "NightSessionOpen", "NightSessionHigh", "NightSessionLow", "NightSessionClose",
       "DaySessionOpen", "DaySessionHigh", "DaySessionLow", "DaySessionClose", "Volume",
       "OpenInterest", "TurnoverValue", "ContractMonth", "StrikePrice",
       "Volume(OnlyAuction)", "EmergencyMarginTriggerDivision", "PutCallDivision",
       "LastTradingDay", "SpecialQuotationDay", "SettlementPrice", "TheoreticalPrice",
       "BaseVolatility", "UnderlyingPrice", "ImpliedVolatility", "InterestRate" >>

\* get_markets: cols (lines 725-782)
cols_get_markets ==
    << "PublishedDate", "StartDate", "EndDate", "Section", "ProprietarySales",
       "ProprietaryPurchases", "ProprietaryTotal", "ProprietaryBalance",
       "BrokerageSales", "BrokeragePurchases", "BrokerageTotal", "BrokerageBalance",
       "TotalSales", "TotalPurchases", "TotalTotal", "TotalBalance", "IndividualsSales",
       "IndividualsPurchases", "IndividualsTotal", "IndividualsBalance",
       "ForeignersSales", "ForeignersPurchases", "ForeignersTotal", "ForeignersBalance",
       "SecuritiesCosSales", "SecuritiesCosPurchases", "SecuritiesCosTotal",
       "SecuritiesCosBalance", "InvestmentTrustsSales", "InvestmentTrustsPurchases",
       "InvestmentTrustsTotal", "InvestmentTrustsBalance", "BusinessCosSales",
       "BusinessCosPurchases", "BusinessCosTotal", "BusinessCosBalance",
       "OtherCosSales", "OtherCosPurchases", "OtherCosTotal", "OtherCosBalance",
       "InsuranceCosSales", "InsuranceCosPurchases", "InsuranceCosTotal",
       "InsuranceCosBalance", "CityBKsRegionalBKsEtcSales",
       "CityBKsRegionalBKsEtcPurchases", "CityBKsRegionalBKsEtcTotal",
       "CityBKsRegionalBKsEtcBalance", "TrustBanksSales", "TrustBanksPurchases",
       "TrustBanksTotal", "TrustBanksBalance", "OtherFinancialInstitutionsSales",
       "OtherFinancialInstitutionsPurchases", "OtherFinancialInstitutionsTotal",
       "OtherFinancialInstitutionsBalance" >>

\* get_weekly_interest: cols (lines 819-829)
cols_get_weekly_interest ==
    << "Date", "Code", "ShortMarginTradeVolume", "LongMarginTradeVolume",
       "ShortNegotiableMarginTradeVolume", "LongNegotiableMarginTradeVolume",
       "ShortStandardizedMarginTradeVolume", "LongStandardizedMarginTradeVolume",
       "IssueType" >>

\* get_short_selling: cols (lines 896-902)
cols_get_short_selling ==
    << "Date", "Sector33Code", "SellingExcludingShortSellingTurnoverValue",
       "ShortSellingWithRestrictionsTurnoverValue",
       "ShortSellingWithoutRestrictionsTurnoverValue" >>

\* get_markets_breakdown: cols (lines 969-986)
cols_get_markets_breakdown ==
    << "Date", "Code", "LongSellValue", "ShortSellWithoutMarginValue",
       "MarginSellNewValue", "MarginSellCloseValue", "LongBuyValue",
       "MarginBuyNewValue", "MarginBuyCloseValue", "LongSellVolume",
       "ShortSellWithoutMarginVolume", "MarginSellNewVolume", "MarginSellCloseVolume",
       "LongBuyVolume", "MarginBuyNewVolume", "MarginBuyCloseVolume" >>

\* get_topix: cols (lines 1058-1058)
cols_get_topix ==
    << "Date", "Open", "High", "Low", "Close" >>

\* get_dividend: cols (lines 1091-1115)
cols_get_dividend ==
    << "AnnouncementDate", "AnnouncementTime", "Code", "ReferenceNumber", "StatusCode",
       "BoardMeetingDate", "InterimFinalCode", "ForecastResultCode", "InterimFinalTerm",
       "GrossDividendRate", "RecordDate", "ExDate", "ActualRecordDate", "PayableDate",
       "CAReferenceNumber", "DistributionAmount", "RetainedEarnings", "DeemedDividend",
       "DeemedCapitalGains", "NetAssetDecreaseRatio", "CommemorativeSpecialCode",
       "CommemorativeDividendRate", "SpecialDividendRate" >>

(***************************************************************************)
(* The endpoint methods.  Each is the same template: build params, _get,   *)
(* read the result array, drain the continuation pages (the paginated      *)
(* ones), build a DataFrame, parse the date columns, sort, select cols.    *)
(***************************************************************************)
Methods ==
    { "get_listed_info", "get_prices_daily_quotes", "get_fins_statements",
      "get_fins_announcement", "get_options", "get_markets",
      "get_weekly_interest", "get_short_selling", "get_markets_breakdown",
      "get_topix", "get_dividend" }

\* the field of the first response's body the method reads
ResultKey(m) ==
    CASE m = "get_listed_info"         -> "info"
      [] m = "get_prices_daily_quotes" -> "daily_quotes"
      [] m = "get_fins_statements"     -> "statements"
      [] m = "get_fins_announcement"   -> "announcement"
      [] m = "get_options"             -> "index_option"
      [] m = "get_markets"             -> "trades_spec"
      [] m = "get_weekly_interest"     -> "weekly_margin_interest"
      [] m = "get_short_selling"       -> "short_selling"
      [] m = "get_markets_breakdown"   -> "breakdown"
      [] m = "get_topix"               -> "topix"
      [] m = "get_dividend"            -> "dividend"

\* the methods with a `while "pagination_key" in ret.json()` loop
Paginated(m) ==
    m \in { "get_prices_daily_quotes", "get_options", "get_markets",
            "get_weekly_interest", "get_short_selling",
            "get_markets_breakdown", "get_topix", "get_dividend" }

\* the field the loop body reads from a continuation response (data += ...)
ContinuationKey(m) ==
    CASE m = "get_prices_daily_quotes" -> "daily_quotes"
      [] m = "get_options"             -> "daily_quotes"
      [] m = "get_markets"             -> "trades_spec"
      [] m = "get_weekly_interest"     -> "weekly_margin_interest"
      [] m = "get_short_selling"       -> "short_selling"
      [] m = "get_markets_breakdown"   -> "breakdown"
      [] m = "get_topix"               -> "topix"
      [] m = "get_dividend"            -> "breakdown"
      [] OTHER                         -> ResultKey(m)

\* the methods that take a subscription-plan flag (light_plan, premium_plan)
HasPlanFlag(m) == m \in {"get_listed_info", "get_prices_daily_quotes"}

\* the values of the flag a call may pass (FALSE stands for "no flag")
Flags(m) == IF HasPlanFlag(m) THEN BOOLEAN ELSE {FALSE}

\* the literal the method assigns to cols
BaseCols(m) ==
    CASE m = "get_listed_info"         -> cols_get_listed_info
      [] m = "get_prices_daily_quotes" -> cols_get_prices_daily_quotes
      [] m = "get_fins_statements"     -> cols_get_fins_statements
      [] m = "get_fins_announcement"   -> cols_get_fins_announcement
      [] m = "get_options"             -> cols_get_options
      [] m = "get_markets"             -> cols_get_markets
      [] m = "get_weekly_interest"     -> cols_get_weekly_interest
      [] m = "get_short_selling"       -> cols_get_short_selling
      [] m = "get_markets_breakdown"   -> cols_get_markets_breakdown
      [] m = "get_topix"               -> cols_get_topix
      [] m = "get_dividend"            -> cols_get_dividend

\* the literal the method adds with cols += under its plan flag
PlanCols(m) ==
    CASE m = "get_listed_info"         -> cols_plan_get_listed_info
      [] m = "get_prices_daily_quotes" -> cols_plan_get_prices_daily_quotes
      [] OTHER                         -> << >>

\* the condition of the cols += statement: `if not light_plan` in
\* get_listed_info, `if premium_plan` in get_prices_daily_quotes
PlanEnabled(m, flag) ==
    CASE m = "get_listed_info"         -> ~flag
      [] m = "get_prices_daily_quotes" -> flag
      [] OTHER                         -> FALSE

\* the list cols as the method has built it when it returns
Cols(m, flag) ==
    BaseCols(m) \o (IF PlanEnabled(m, flag) THEN PlanCols(m) ELSE << >>)

\* the conversions the method applies to a non-empty frame, in the order of
\* the code: pd.to_datetime(format="%Y-%m-%d") or
\* pd.to_numeric(errors="coerce") of one column
Conversions(m) ==
    CASE m = "get_fins_statements" ->
             << <<"DisclosedDate", "datetime">>,
                <<"DisclosureNumber", "numeric">>,
                <<"CurrentPeriodStartDate", "datetime">>,
                <<"CurrentPeriodEndDate", "datetime">>,
                <<"CurrentFiscalYearStartDate", "datetime">>,
                <<"CurrentFiscalYearEndDate", "datetime">>,
                <<"NextFiscalYearStartDate", "datetime">>,
                <<"NextFiscalYearEndDate", "datetime">> >>
      [] m = "get_markets" ->
             << <<"PublishedDate", "datetime">>, <<"StartDate", "datetime">>,
                <<"EndDate", "datetime">> >>
      [] m = "get_dividend" -> << <<"AnnouncementDate", "datetime">> >>
      [] OTHER              -> << <<"Date", "datetime">> >>

\* the argument of sort_values
SortKey(m) ==
    CASE m = "get_listed_info"         -> << "Code" >>
      [] m = "get_prices_daily_quotes" -> << "Date", "Code" >>
      [] m = "get_fins_statements"     -> << "DisclosedDate", "DisclosedTime" >>
      [] m = "get_fins_announcement"   -> << "Date", "Code" >>
      [] m = "get_options"             -> << "Date", "Code" >>
      [] m = "get_markets"             -> << "PublishedDate" >>
      [] m = "get_weekly_interest"     -> << "Date", "Code" >>
      [] m = "get_short_selling"       -> << "Date", "Sector33Code" >>
      [] m = "get_markets_breakdown"   -> << "Date", "Code" >>
      [] m = "get_topix"               -> << "Date" >>
      [] m = "get_dividend"            -> << "AnnouncementDate", "Code" >>

(***************************************************************************)
(* Values, records and frames.                                             *)
(***************************************************************************)
Range(s) == {s[i] : i \in DOMAIN s}

\* the last element of a list
Last(s) == s[Len(s)]

\* the missing value pandas puts where a record has no such field (NaN, and
\* NaT once the column is a datetime column)
NaN == -1

DaysInMonth(y, mo) ==
    IF mo = 2
    THEN (IF (y % 4 = 0 /\ y % 100 # 0) \/ y % 400 = 0 THEN 29 ELSE 28)
    ELSE IF mo \in {4, 6, 9, 11} THEN 30 ELSE 31

\* the day number of a civil date, counted from 1970-01-01
DaysFromCivil(y, mo, d) ==
    LET yy  == IF mo <= 2 THEN y - 1 ELSE y
        era == yy \div 400
        yoe == yy - era * 400
        mp  == (mo + 9) % 12
        doy == (153 * mp + 2) \div 5 + d - 1
        doe == yoe * 365 + yoe \div 4 - yoe \div 100 + doy
    IN  era * 146097 + doe - 719468

\* a string pandas reads as a missing date: the empty string, "NaT", "nan"
\* and the other names of a missing value
NatString == -2

\* pd.to_datetime(..., format="%Y-%m-%d") of one value: a missing value stays
\* missing, and so does a string that names one; a date string becomes its
\* Timestamp; any other string is an error
to_datetime(v) ==
    LET y  == v \div 10000
        mo == (v \div 100) % 100
        d  == v % 100
    IN  IF v \in {NaN, NatString} THEN [ok |-> TRUE, value |-> NaN]
        ELSE IF v > 0 /\ y >= 1 /\ mo \in 1..12 /\ d \in 1..DaysInMonth(y, mo)
        THEN [ok |-> TRUE, value |-> DaysFromCivil(y, mo, d)]
        ELSE [ok |-> FALSE, value |-> NaN]

\* a field the API sends that get_listed_info has commented out of its cols;
\* of the other methods get_fins_announcement alone selects it
UndeclaredField == "CompanyName"

\* the order of the fields in a record of the API: a record is a dict, and
\* has each field once
KeyOrder(m) ==
    LET declared == BaseCols(m)
                        \o SelectSeq(PlanCols(m),
                                     LAMBDA c : c \notin Range(BaseCols(m)))
    IN  declared \o (IF UndeclaredField \in Range(declared) THEN << >>
                     ELSE << UndeclaredField >>)

\* the fields of a record: every field ("full"), or every field but the ones
\* of the higher plan ("light")
FieldsOf(m, shape) ==
    IF shape = "full"
    THEN Range(KeyOrder(m))
    ELSE Range(KeyOrder(m)) \ Range(PlanCols(m))

Shapes(m) == IF HasPlanFlag(m) THEN {"full", "light"} ELSE {"full"}

DateCols(m) ==
    {Conversions(m)[i][1] : i \in {j \in DOMAIN Conversions(m) :
                                       Conversions(m)[j][2] = "datetime"}}

\* a record of the API: its date fields hold dv, the other fields of the
\* sort key hold code, every other field holds 0
MkRec(m, shape, dv, code) ==
    [f \in FieldsOf(m, shape) |->
        IF f \in DateCols(m) THEN dv
        ELSE IF f \in Range(SortKey(m)) THEN code
        ELSE 0]

\* the dates the server sends: 2024-03-02, 2024-03-04, a string that is no
\* date, and the empty string
DateValues == {20240302, 20240304, 0, NatString}
CodeValues == {1301}

\* the records a server sends whose dates are those of the set dates, one
\* set for each plan: full ones of every date, and, for a method with a plan
\* flag, a light one of 2024-03-02
RecordSets(m, dates) ==
    {{MkRec(m, "full", dv, c) : dv \in dates, c \in CodeValues}}
        \cup {{MkRec(m, sh, 20240302, c) : c \in CodeValues} : sh \in Shapes(m)}

\* the records the server sends
RecordsOf(m) == UNION RecordSets(m, DateValues)

\* the sequences over S of length at most n
RECURSIVE SeqsUpTo(_, _)
SeqsUpTo(S, n) ==
    IF n = 0 THEN {<< >>}
    ELSE LET shorter == SeqsUpTo(S, n - 1)
         IN  shorter \cup {Append(s, x) : s \in {q \in shorter : Len(q) = n - 1}, x \in S}

\* the columns of pd.DataFrame.from_dict(data): the fields of the records in
\* the order of their first appearance
RECURSIVE FromDictColumns(_, _, _)
FromDictColumns(m, data, n) ==
    IF n = 0 THEN << >>
    ELSE LET before == FromDictColumns(m, data, n - 1)
         IN  before \o SelectSeq(KeyOrder(m),
                                 LAMBDA c : c \in DOMAIN data[n]
                                            /\ c \notin Range(before))

\* pd.DataFrame.from_dict(data): one row per record, NaN where the record has
\* no such field
from_dict(m, data) ==
    LET columns == FromDictColumns(m, data, Len(data))
    IN  [columns |-> columns,
         rows    |-> [i \in DOMAIN data |->
                        [c \in Range(columns) |->
                            IF c \in DOMAIN data[i] THEN data[i][c] ELSE NaN]]]

\* the first error of the conversions from the i-th on, "" when there is none
RECURSIVE ConversionError(_, _, _)
ConversionError(m, df, i) ==
    IF i > Len(Conversions(m)) THEN ""
    ELSE LET c    == Conversions(m)[i][1]
             kind == Conversions(m)[i][2]
         IN  IF c \notin Range(df.columns) THEN "KeyError"
             ELSE IF kind = "datetime"
                     /\ \E r \in DOMAIN df.rows : ~to_datetime(df.rows[r][c]).ok
             THEN "ValueError"
             ELSE ConversionError(m, df, i + 1)

\* the rows once every conversion has been applied
Converted(m, df) ==
    [i \in DOMAIN df.rows |->
        [c \in Range(df.columns) |->
            IF c \in DateCols(m) THEN to_datetime(df.rows[i][c]).value
            ELSE df.rows[i][c]]]

\* r1 sorts before r2 under sort_values(key): ascending, missing values last
RECURSIVE RowBefore(_, _, _, _)
RowBefore(key, r1, r2, i) ==
    IF i > Len(key) THEN FALSE
    ELSE LET a == r1[key[i]]
             b == r2[key[i]]
         IN  IF a = b THEN RowBefore(key, r1, r2, i + 1)
             ELSE IF a = NaN THEN FALSE
             ELSE IF b = NaN THEN TRUE
             ELSE a < b

\* the rows in ascending order of the key, missing values last, rows of
\* equal key in their order of arrival: a sort by insertion
RECURSIVE InsertionSort(_, _)
InsertionSort(rows, key) ==
    IF Len(rows) <= 1 THEN rows
    ELSE LET init   == InsertionSort(SubSeq(rows, 1, Len(rows) - 1), key)
             last   == rows[Len(rows)]
             \* the rows of init that stay before last
             nfront == Cardinality({i \in DOMAIN init :
                                      ~RowBefore(key, last, init[i], 1)})
         IN  SubSeq(init, 1, nfront) \o << last >>
                 \o SubSeq(init, nfront + 1, Len(init))

\* numpy's quicksort partitions a run while its last index is more than
\* SMALL_QUICKSORT above its first
SMALL_QUICKSORT == 16

Swap(s, i, j) == [s EXCEPT ![i] = s[j], ![j] = s[i]]

\* the run s after the three tests that bring the median of its first, its
\* middle and its last element to the middle
MedianOfThree(s, by) ==
    LET pl == 1
        pr == Len(s)
        pm == pl + (pr - pl) \div 2
        a  == IF s[pm][by] < s[pl][by] THEN Swap(s, pm, pl) ELSE s
        b  == IF a[pr][by] < a[pm][by] THEN Swap(a, pr, pm) ELSE a
    IN  IF b[pm][by] < b[pl][by] THEN Swap(b, pm, pl) ELSE b

\* the loop of the partition around the value vp, pi and pj the two cursors:
\* pi goes up to the next element that is not below vp, pj down to the next
\* that is not above it, and the two are swapped until the cursors meet
RECURSIVE Partition(_, _, _, _, _)
Partition(s, by, vp, pi, pj) ==
    LET i == CHOOSE k \in (pi + 1)..Len(s) :
                /\ ~(s[k][by] < vp)
                /\ \A l \in (pi + 1)..(k - 1) : s[l][by] < vp
        j == CHOOSE k \in 1..(pj - 1) :
                /\ ~(vp < s[k][by])
                /\ \A l \in (k + 1)..(pj - 1) : vp < s[l][by]
    IN  IF i >= j THEN [s |-> s, pi |-> i]
        ELSE Partition(Swap(s, i, j), by, vp, i, j)

\* argsort(kind="quicksort") of numpy on the column by, none of whose values
\* is missing: a run of more than SMALL_QUICKSORT + 1 rows is split around
\* the median of three and its two sides are sorted in the same way, a
\* shorter one is sorted by insertion.  The split moves rows of equal key
\* past each other.  (Past a depth of twice the logarithm of the length the
\* sort goes on by heapsort: no frame of the model is that long.)
RECURSIVE aquicksort(_, _)
aquicksort(s, by) ==
    IF Len(s) - 1 <= SMALL_QUICKSORT THEN InsertionSort(s, << by >>)
    ELSE LET pr    == Len(s)
             m     == MedianOfThree(s, by)
             pm    == 1 + (pr - 1) \div 2
             vp    == m[pm][by]
             p     == Partition(Swap(m, pm, pr - 1), by, vp, 1, pr - 1)
             split == Swap(p.s, p.pi, pr - 1)
         IN  aquicksort(SubSeq(split, 1, p.pi - 1), by)
                 \o << split[p.pi] >>
                 \o aquicksort(SubSeq(split, p.pi + 1, pr), by)

\* sort_values(key): the rows in ascending order of the key, missing values
\* last.  On several columns the sort is a lexsort, which leaves rows of
\* equal key in their order of arrival; on one column the rows whose value
\* is missing are set aside and put last, and the others are sorted by
\* numpy's quicksort, which on up to SMALL_QUICKSORT + 1 rows is the sort
\* by insertion
sort_values(rows, key) ==
    IF Len(key) = 1 /\ Len(rows) > SMALL_QUICKSORT + 1
    THEN aquicksort(SelectSeq(rows, LAMBDA r : r[key[1]] # NaN), key[1])
             \o SelectSeq(rows, LAMBDA r : r[key[1]] = NaN)
    ELSE InsertionSort(rows, key)

\* the orders in which the rows of a sequence may come
RECURSIVE Orders(_)
Orders(rows) ==
    IF rows = << >> THEN {<< >>}
    ELSE UNION {{<< rows[i] >> \o rest :
                    rest \in Orders(SubSeq(rows, 1, i - 1)
                                        \o SubSeq(rows, i + 1, Len(rows)))} :
                i \in DOMAIN rows}

\* df[cols]
Select(rows, cols) ==
    [i \in DOMAIN rows |-> [c \in Range(cols) |-> rows[i][c]]]

\* pd.DataFrame([], columns=cols)
EmptyFrame(cols) == [columns |-> cols, rows |-> << >>]

\* the rest of a method as it would be if it returned the non-empty frame
\* whole, without the selection df[cols]
Normalize_no_select(m, flag, data) ==
    LET df   == from_dict(m, data)
        cols == Cols(m, flag)
        cerr == ConversionError(m, df, 1)
    IN  IF Len(df.rows) = 0 THEN [err |-> "", df |-> EmptyFrame(cols)]
        ELSE IF cerr # "" THEN [err |-> cerr, df |-> EmptyFrame(<< >>)]
        ELSE IF ~(Range(SortKey(m)) \subseteq Range(df.columns))
        THEN [err |-> "KeyError", df |-> EmptyFrame(<< >>)]
        ELSE IF ~(Range(cols) \subseteq Range(df.columns))
        THEN [err |-> "KeyError", df |-> EmptyFrame(<< >>)]
        ELSE [err |-> "",
              df  |-> [columns |-> df.columns,
                       rows    |-> sort_values(Converted(m, df), SortKey(m))]]

\* what a method does with the list data once the pages are drained: the
\* frame it returns, or the error it raises
Normalize(m, flag, data) ==
    LET df   == from_dict(m, data)
        cols == Cols(m, flag)
        cerr == ConversionError(m, df, 1)
    IN  IF Len(df.rows) = 0 THEN [err |-> "", df |-> EmptyFrame(cols)]
        ELSE IF cerr # "" THEN [err |-> cerr, df |-> EmptyFrame(<< >>)]
        ELSE IF ~(Range(SortKey(m)) \subseteq Range(df.columns))
        THEN [err |-> "KeyError", df |-> EmptyFrame(<< >>)]
        ELSE IF ~(Range(cols) \subseteq Range(df.columns))
        THEN [err |-> "KeyError", df |-> EmptyFrame(<< >>)]
        ELSE [err |-> "",
              df  |-> [columns |-> cols,
                       rows    |-> Select(sort_values(Converted(m, df),
                                                      SortKey(m)), cols)]]

(***************************************************************************)
(* Timestamps and date ranges.  A Timestamp with a time of day is the      *)
(* number of hours since 1970-01-01 00:00; the Date column of a frame      *)
(* holds Timestamps at midnight, as day numbers.                           *)
(***************************************************************************)
\* the hours of dt.timedelta(days=1)
HoursPerDay == 24

\* the Timestamp of hour h of the day with number day
Ts(day, h) == day * HoursPerDay + h

DayOf(ts) == ts \div HoursPerDay
HourOf(ts) == ts % HoursPerDay

\* Timestamp.weekday(): 0 is Monday (1970-01-01 was a Thursday)
Weekday(day) == (day + 3) % 7

\* the civil date of a day number, as the number YYYYMMDD:
\* strftime("%Y%m%d")
strftime(ts) ==
    LET z   == DayOf(ts) + 719468
        era == z \div 146097
        doe == z - era * 146097
        yoe == (doe - doe \div 1460 + doe \div 36524 - doe \div 146096) \div 365
        doy == doe - (365 * yoe + yoe \div 4 - yoe \div 100)
        mp  == (5 * doy + 2) \div 153
        d   == doy - (153 * mp + 2) \div 5 + 1
        mo  == IF mp < 10 THEN mp + 3 ELSE mp - 9
        y   == yoe + era * 400 + (IF mo <= 2 THEN 1 ELSE 0)
    IN  y * 10000 + mo * 100 + d

\* the first day of the month of a day number: x.replace(day=1), which
\* is NaT on NaT
MonthStart(day) ==
    LET ymd == strftime(Ts(day, 0))
    IN  IF day = NaN THEN NaN
        ELSE DaysFromCivil(ymd \div 10000, (ymd \div 100) % 100, 1)

\* pd.date_range(start_dt, end_dt, freq): the Timestamps start_dt + k
\* periods that are not after end_dt; under "W-MON" the first one is the
\* first Monday that is not before start_dt, at the time of day of start_dt
date_range(start_dt, end_dt, freq) ==
    LET ahead  == (7 - Weekday(DayOf(start_dt))) % 7
        first  == IF freq = "W-MON" THEN start_dt + ahead * HoursPerDay
                  ELSE start_dt
        period == IF freq = "W-MON" THEN 7 * HoursPerDay ELSE HoursPerDay
        n      == IF first > end_dt THEN 0 ELSE (end_dt - first) \div period + 1
    IN  [i \in 1..n |-> first + (i - 1) * period]

(***************************************************************************)
(* The range fetches (get_*_range).                                        *)
(***************************************************************************)
RangeMethods ==
    {"get_list_range", "get_price_range", "get_statements_range",
     "get_options_range", "get_weekly_interest_range",
     "get_short_selling_range", "get_markets_breakdown_range",
     "get_dividend_range"}

\* the endpoint method a range fetch calls for each of its dates
UnitMethod(rm) ==
    CASE rm = "get_list_range"              -> "get_listed_info"
      [] rm = "get_price_range"             -> "get_prices_daily_quotes"
      [] rm = "get_statements_range"        -> "get_fins_statements"
      [] rm = "get_options_range"           -> "get_options"
      [] rm = "get_weekly_interest_range"   -> "get_weekly_interest"
      [] rm = "get_short_selling_range"     -> "get_short_selling"
      [] rm = "get_markets_breakdown_range" -> "get_markets_breakdown"
      [] rm = "get_dividend_range"          -> "get_dividend"

\* the freq as it would be if every range fetch went day by day
RangeFreq_daily(rm) == "D"

\* the freq of its pd.date_range
RangeFreq(rm) == IF rm = "get_list_range" THEN "W-MON" ELSE "D"

\* the default of its plan flag: light_plan=True, premium_plan=True
RangeFlag(rm) == rm \in {"get_list_range", "get_price_range"}

(***************************************************************************)
(* Frames in the update scripts.                                           *)
(***************************************************************************)
\* the rows with NaN in every column of columns that a row lacks
Reindex(rows, columns) ==
    [i \in DOMAIN rows |->
        [c \in Range(columns) |->
            IF c \in DOMAIN rows[i] THEN rows[i][c] ELSE NaN]]

\* pd.concat((a, b)): the columns of a, then the columns only b has; the
\* rows of a, then the rows of b
concat(a, b) ==
    LET columns == a.columns
                     \o SelectSeq(b.columns, LAMBDA c : c \notin Range(a.columns))
    IN  [columns |-> columns,
         rows    |-> Reindex(a.rows, columns) \o Reindex(b.rows, columns)]

\* pd.concat(buff) of the frames of a list
RECURSIVE concat_all(_)
concat_all(buff) ==
    IF Len(buff) = 1 THEN buff[1]
    ELSE concat(concat_all(SubSeq(buff, 1, Len(buff) - 1)), buff[Len(buff)])

\* do two rows agree on every column of subset
SameKey(r1, r2, subset) == \A c \in Range(subset) : r1[c] = r2[c]

\* drop_duplicates(subset=subset, keep="last"): a row stays when no later row
\* has its key
drop_duplicates(rows, subset) ==
    LET keep == {i \in DOMAIN rows :
                    \A j \in DOMAIN rows : j > i => ~SameKey(rows[i], rows[j], subset)}
        idx(k) == CHOOSE i \in keep : Cardinality({j \in keep : j <= i}) = k
    IN  [k \in 1..Cardinality(keep) |-> rows[idx(k)]]

\* the value of a float64 once it is cast to float32: the integers up to
\* 2^24 stay, a larger one is rounded to a multiple of the power of two of
\* its magnitude (ties to even)
RECURSIVE Float32Step(_, _)
Float32Step(v, unit) ==
    IF v < 16777216 * unit
    THEN LET q == v \div unit
             r == v % unit
         IN  IF 2 * r > unit \/ (2 * r = unit /\ q % 2 = 1)
             THEN (q + 1) * unit ELSE q * unit
    ELSE Float32Step(v, 2 * unit)

Float32(v) == IF v = NaN THEN NaN ELSE Float32Step(v, 1)

(***************************************************************************)
(* The retrying session (_request_session) and raise_for_status.           *)
(***************************************************************************)
\* what one attempt of a request meets: no answer within timeout=30, or a
\* response with a status and, possibly, a Retry-After header
Timeout == [kind |-> "timeout", status |-> 0, retry_after |-> FALSE]
Response(status, retry_after) ==
    [kind |-> "response", status |-> status, retry_after |-> retry_after]

\* Retry._is_method_retryable under allowed_methods=allowed
IsMethodRetryable(method, allowed) == method \in allowed

\* Retry.is_retry as it would be if every 5xx status were retried
IsRetry_every_5xx(method, allowed, total, o) ==
    /\ IsMethodRetryable(method, allowed)
    /\ \/ o.status >= 500
       \/ o.status \in status_forcelist
       \/ (total # 0 /\ o.retry_after /\ o.status \in RETRY_AFTER_STATUS_CODES)

\* Retry.is_retry: is a response with this status to be retried
IsRetry(method, allowed, total, o) ==
    /\ IsMethodRetryable(method, allowed)
    /\ \/ o.status \in status_forcelist
       \/ (total # 0 /\ o.retry_after /\ o.status \in RETRY_AFTER_STATUS_CODES)

\* Retry.is_exhausted as it would be if one more retry were allowed
IsExhausted_one_more(total) == total - 1 < 0 - 1

\* Retry.is_exhausted as it would be if one retry fewer were allowed
IsExhausted_one_fewer(total) == total - 1 < 0 + 2

\* Retry.is_exhausted once increment() has taken one off total
IsExhausted(total) == total - 1 < 0

\* the backoff_factor of the Retry object: Retry(total=3, status_forcelist=...,
\* allowed_methods=...) passes none, and the default is 0
backoff_factor == 0

\* Retry.get_backoff_time after n consecutive attempts that were retried:
\* nothing after the first, then backoff_factor * 2 ** (n - 1), in seconds
get_backoff_time(n) ==
    IF n <= 1 THEN 0 ELSE backoff_factor * 2 ^ (n - 1)

\* what the session and raise_for_status make of one attempt, total being
\* what is left of Retry(total=3):
\*   "retry"       the adapter sends the request again
\*   "RetryError"       a retried status with the retries used up
\*   "ConnectionError"  a timeout with the retries used up (the adapter
\*                      wraps the MaxRetryError of a read timeout in it)
\*   "ReadTimeout"      a timeout of a method that is not retried
\*   "HTTPError"   raise_for_status on a 4xx or 5xx response
\*   "ok"          the response is returned to the caller
Verdict(method, allowed, total, o) ==
    IF o.kind = "timeout"
    THEN IF ~IsMethodRetryable(method, allowed) THEN "ReadTimeout"
         ELSE IF IsExhausted(total) THEN "ConnectionError"
         ELSE "retry"
    ELSE IF IsRetry(method, allowed, total, o)
    THEN IF IsExhausted(total) THEN "RetryError" ELSE "retry"
    ELSE IF o.status >= 400 /\ o.status < 600 THEN "HTTPError"
    ELSE "ok"

(***************************************************************************)
(* What the server may answer.                                             *)
(***************************************************************************)
\* the cursors the server hands out
PageKeys == {1, 2}

\* the response bodies of a GET of method m that hold at most cap records in
\* all:
\* the result field of the endpoint (or, for a malformed body, none), for the
\* two methods whose loop reads another field possibly that field too, and
\* possibly a pagination_key
BodiesOf(m, records, cap) ==
    LET pages  == SeqsUpTo(records, cap)
        own    == {[f \in {ResultKey(m)} |-> p] : p \in pages}
        both   == IF ContinuationKey(m) = ResultKey(m) THEN {}
                  ELSE UNION {{[f \in {ResultKey(m), ContinuationKey(m)} |->
                                  IF f = ResultKey(m) THEN p ELSE q] :
                               q \in {r \in pages : Len(p) + Len(r) <= cap}} :
                              p \in pages}
        arrays == own \cup both \cup {<< >>}
        cursor == {<< >>} \cup {[f \in {"pagination_key"} |-> k] : k \in PageKeys}
    IN  {a @@ c : a \in arrays, c \in cursor}

Bodies(m, cap) == BodiesOf(m, RecordsOf(m), cap)

(***************************************************************************)
(* The state.                                                              *)
(***************************************************************************)
VARIABLES
    refresh_token,     \* self._refresh_token
    id_token,          \* self._id_token
    id_token_expire,   \* self._id_token_expire
    now,               \* pd.Timestamp.utcnow(), hours since construction
    issued,            \* the number of tokens the server has issued
    th,                \* the frame of each thread that uses the client
    rg,                \* the frame of the range fetch (get_*_range) under way
    run,               \* the frame of the update script under way
    fs,                \* the directory data/: the frame of every file in it
    store,             \* the tables of the time series store
    served             \* the table the server has new records for, where the
                       \* scripts run

\* the state of the update scripts and of the range fetches
pipe_vars == <<rg, run, fs, store, served>>

vars == <<refresh_token, id_token, id_token_expire, now, issued, th, rg, run, fs, store,
          served>>

\* the exceptions of the session and of raise_for_status
HttpErrors == {"RetryError", "ConnectionError", "ReadTimeout", "HTTPError"}

\* an exception: its type, the status it carries (an HTTPError or a
\* RetryError), and the step that raised it
NoError == [type |-> "", status |-> 0, at |-> ""]
Error(type, status, at) == [type |-> type, status |-> status, at |-> at]

\* a thread that is in no call
IdleFrame ==
    [pc             |-> "idle",
     kind           |-> "",        \* "get": an endpoint method, "header": _base_headers,
                                   \* "refresh_token": get_refresh_token,
                                   \* "id_token": get_id_token
     m              |-> "",        \* the endpoint method running
     flag           |-> FALSE,     \* its plan flag
     site           |-> "",        \* "first": line `ret = self._get(url, params)`,
                                   \* "next": the _get of the loop body
     params         |-> << >>,     \* the dict params: its pagination_key, once set
     req            |-> "",        \* the request under way, or the last one made
     total          |-> 0,         \* what is left of Retry(total=3)
     hist           |-> << >>,     \* what the attempts of that request met, kept
                                   \* until the method has read the response
     new_refresh    |-> NoToken,   \* the local refresh_token of get_refresh_token
     new_id         |-> NoToken,   \* the local id_token of get_id_token
     headers        |-> NoToken,   \* the token of the Authorization header
     hdr_valid      |-> FALSE,     \* was id_token_expire > now when it was built
     fresh          |-> FALSE,     \* did _base_headers find the client as constructed
     entry_id       |-> NoToken,   \* self._id_token when _base_headers was entered
     entry_refresh  |-> NoToken,   \* self._refresh_token when it was entered
     was_valid      |-> FALSE,     \* did get_id_token find the stored token unexpired
     body           |-> << >>,     \* ret.json()
     data           |-> << >>,     \* the list data
     ret            |-> EmptyFrame(<< >>),   \* the frame returned
     err            |-> NoError,   \* the exception raised
     n_auth_user    |-> 0,         \* token/auth_user exchanges of this _base_headers
     n_auth_refresh |-> 0]         \* token/auth_refresh exchanges of this _base_headers

\* no range fetch under way
IdleRange ==
    [pc    |-> "idle",
     m     |-> "",                  \* the get_*_range method running
     dates |-> << >>,               \* the list dates
     i     |-> 0,                   \* the index in dates of the loop variable s
     buff  |-> << >>,               \* the list buff
     none  |-> FALSE,               \* has the method returned None
     ret   |-> EmptyFrame(<< >>),   \* the frame returned, when not None
     err   |-> NoError,             \* the exception raised
     cache_dir |-> "",              \* the argument cache_dir of get_statements_range
     fetched   |-> << >>]           \* the dates get_statements_range has called
                                    \* get_fins_statements for

\* the directory data/ with no file in it
EmptyDir == << >>

\* the store with no row in its tables
EmptyStore == EmptyFrame(<< >>)

\* no file found by glob
NoPath == [table |-> "", save_date |-> 0]

\* no update script under way; clock is the time the last one was started
IdleRun ==
    [pc        |-> "idle",
     script    |-> "",              \* "main_local", "main" or "main_s3"
     FETCH_ALL_DATA |-> FALSE,      \* the constant of main_s3.py
     table     |-> "",              \* the section running: "list", "price", "topix"
     clock     |-> 0,               \* the last reading of the clock
     save_date |-> 0,               \* dt.datetime.now().strftime("%Y%m%d")
     path      |-> NoPath,          \* path_list[0], path_price[0], path_topix[0]
     df        |-> EmptyFrame(<< >>),   \* df_list, df_price, df_topix
     start_dt  |-> 0,
     end_dt    |-> 0,
     none      |-> FALSE,           \* is df_l (df_p, df_t) None
     new       |-> EmptyFrame(<< >>),   \* df_l, df_p, df_t when not None
     sent      |-> << >>,           \* the messages handed to discord_notify
     err       |-> NoError,         \* the exception that ended the script
     outcome   |-> "",              \* how the section ended
     prior     |-> EmptyFrame(<< >>),   \* the frame LOAD_PRIOR read
     before    |-> [fs |-> EmptyDir, store |-> EmptyStore]]
                                    \* the files and the store when the section began

\* the client as constructed, outside any update script
Init ==
    /\ refresh_token = NoToken
    /\ id_token = NoToken
    /\ now = 0
    /\ id_token_expire = now
    /\ issued = 0
    /\ th = [t \in Threads |-> IdleFrame]
    /\ rg = IdleRange
    /\ run = IdleRun
    /\ fs = EmptyDir
    /\ store = EmptyStore
    /\ served = ""

\* the frame f ended by an exception
Raise(f, type, status) ==
    [f EXCEPT !.pc = "failed", !.err = Error(type, status, f.pc)]

\* the frame f starting a request: a new session with a new Retry(total=3)
BeginRequest(f, pc) ==
    [f EXCEPT !.pc = pc, !.req = pc, !.total = RetryTotal, !.hist = << >>]

\* the frame f with its header built from token: _get goes on to s.get, a
\* direct call of _base_headers returns the header, and a direct call of
\* get_id_token returns the token
WithHeaders(f, token, valid) ==
    IF f.kind \in {"header", "id_token"}
    THEN [f EXCEPT !.pc = "done", !.headers = token, !.hdr_valid = valid]
    ELSE [BeginRequest(f, "send") EXCEPT !.headers = token, !.hdr_valid = valid]

(***************************************************************************)
(* The steps of a thread t that uses the client.                           *)
(***************************************************************************)
\* the frame f entering _base_headers
EnterBaseHeaders(f) ==
    [f EXCEPT !.pc = "base_headers",
              !.fresh = (refresh_token = NoToken /\ id_token = NoToken),
              !.entry_id = id_token,
              !.entry_refresh = refresh_token,
              !.was_valid = FALSE,
              !.n_auth_user = 0,
              !.n_auth_refresh = 0]

\* a call of endpoint method m: the method builds url and params and enters
\* _get, which takes a session and asks _base_headers for the header
Call(t, ms) ==
    /\ th[t].pc = "idle"
    /\ \E m \in ms : \E flag \in Flags(m) :
          th' = [th EXCEPT ![t] =
                    EnterBaseHeaders([IdleFrame EXCEPT !.kind = "get",
                                                       !.m = m,
                                                       !.flag = flag,
                                                       !.site = "first"])]
    /\ UNCHANGED <<refresh_token, id_token, id_token_expire, now, issued>>
    /\ UNCHANGED pipe_vars

\* a direct call of _base_headers
CallBaseHeaders(t) ==
    /\ th[t].pc = "idle"
    /\ th' = [th EXCEPT ![t] =
                EnterBaseHeaders([IdleFrame EXCEPT !.kind = "header"])]
    /\ UNCHANGED <<refresh_token, id_token, id_token_expire, now, issued>>
    /\ UNCHANGED pipe_vars

\* a direct call of the public method get_refresh_token: the POST of
\* token/auth_user begins, whether a refresh token is held or not
CallGetRefreshToken(t) ==
    /\ th[t].pc = "idle"
    /\ issued < MaxIssued
    /\ th' = [th EXCEPT ![t] =
                [BeginRequest(EnterBaseHeaders(
                                  [IdleFrame EXCEPT !.kind = "refresh_token"]),
                              "auth_user") EXCEPT !.n_auth_user = 1]]
    /\ UNCHANGED <<refresh_token, id_token, id_token_expire, now, issued>>
    /\ UNCHANGED pipe_vars

\* a direct call of the public method get_id_token, whether a refresh token
\* is held or not
CallGetIdToken(t) ==
    /\ th[t].pc = "idle"
    /\ issued < MaxIssued
    /\ th' = [th EXCEPT ![t] =
                [EnterBaseHeaders([IdleFrame EXCEPT !.kind = "id_token"]) EXCEPT
                     !.pc = "get_id_token"]]
    /\ UNCHANGED <<refresh_token, id_token, id_token_expire, now, issued>>
    /\ UNCHANGED pipe_vars

\* _base_headers as it would be if it exchanged the credentials on every
\* call, whether a refresh token is held or not
BaseHeaders_every_call(t) ==
    /\ th[t].pc = "base_headers"
    /\ th' = [th EXCEPT ![t] =
                [BeginRequest(@, "auth_user") EXCEPT !.n_auth_user = @ + 1]]
    /\ UNCHANGED <<refresh_token, id_token, id_token_expire, now, issued>>
    /\ UNCHANGED pipe_vars

\* _base_headers, line 44: `if not self._refresh_token`
BaseHeaders(t) ==
    /\ th[t].pc = "base_headers"
    /\ th' = [th EXCEPT ![t] =
                IF refresh_token = NoToken
                THEN [BeginRequest(@, "auth_user") EXCEPT
                          !.n_auth_user = @ + 1]
                ELSE [@ EXCEPT !.pc = "get_id_token"]]
    /\ UNCHANGED <<refresh_token, id_token, id_token_expire, now, issued>>
    /\ UNCHANGED pipe_vars

\* get_refresh_token, lines 124-125: one attempt of the POST of
\* token/auth_user; when the response comes back, refreshToken is read from
\* its body into the local refresh_token
get_refresh_token(t, outcomes) ==
    /\ th[t].pc = "auth_user"
    /\ \E o \in outcomes :
          LET f == [th[t] EXCEPT !.hist = Append(@, o)]
              v == Verdict("POST", method_whitelist_post, th[t].total, o)
          IN  \/ /\ v = "retry"
                 /\ th' = [th EXCEPT ![t] = [f EXCEPT !.total = @ - 1]]
                 /\ UNCHANGED issued
              \/ /\ v \in HttpErrors
                 /\ th' = [th EXCEPT ![t] = Raise(f, v, o.status)]
                 /\ UNCHANGED issued
              \/ /\ v = "ok"
                 /\ \E wellformed \in BOOLEAN :
                       IF wellformed
                       THEN /\ issued' = issued + 1
                            /\ th' = [th EXCEPT ![t] =
                                        [f EXCEPT !.pc = "store_refresh_token",
                                                  !.new_refresh = issued + 1]]
                       ELSE /\ th' = [th EXCEPT ![t] = Raise(f, "KeyError", 0)]
                            /\ UNCHANGED issued
    /\ UNCHANGED <<refresh_token, id_token, id_token_expire, now>>
    /\ UNCHANGED pipe_vars

\* get_refresh_token, lines 126-127: `self._refresh_token = refresh_token`;
\* the method returns, and its local is gone, to _base_headers, which goes
\* on to get_id_token, or to the caller of a direct call
store_refresh_token(t) ==
    /\ th[t].pc = "store_refresh_token"
    /\ refresh_token' = th[t].new_refresh
    /\ th' = [th EXCEPT ![t] =
                [@ EXCEPT !.new_refresh = NoToken,
                          !.pc = IF th[t].kind = "refresh_token" THEN "done"
                                 ELSE "get_id_token"]]
    /\ UNCHANGED <<id_token, id_token_expire, now, issued>>
    /\ UNCHANGED pipe_vars

\* get_id_token as it would be without the early return of lines 133-134:
\* the token is exchanged on every call
get_id_token_always_refresh(t) ==
    /\ th[t].pc = "get_id_token"
    /\ th' = [th EXCEPT ![t] =
                [BeginRequest([@ EXCEPT !.was_valid = (id_token_expire > now)],
                              "auth_refresh") EXCEPT !.n_auth_refresh = @ + 1]]
    /\ UNCHANGED <<refresh_token, id_token, id_token_expire, now, issued>>
    /\ UNCHANGED pipe_vars

\* get_id_token as it would be if line 133 tested only that a token is
\* stored, not its expiry
get_id_token_no_expiry_test(t) ==
    /\ th[t].pc = "get_id_token"
    /\ th' = [th EXCEPT ![t] =
                LET f == [@ EXCEPT !.was_valid = (id_token_expire > now)]
                IN  IF id_token # NoToken
                    THEN WithHeaders(f, id_token, id_token_expire > now)
                    ELSE [BeginRequest(f, "auth_refresh") EXCEPT
                              !.n_auth_refresh = @ + 1]]
    /\ UNCHANGED <<refresh_token, id_token, id_token_expire, now, issued>>
    /\ UNCHANGED pipe_vars

\* get_id_token, lines 133-134: the stored token is returned while
\* `self._id_token_expire > pd.Timestamp.utcnow()`; else the POST of
\* token/auth_refresh begins
get_id_token(t) ==
    /\ th[t].pc = "get_id_token"
    /\ th' = [th EXCEPT ![t] =
                LET f == [@ EXCEPT !.was_valid = (id_token_expire > now)]
                IN  IF id_token_expire > now
                    THEN WithHeaders(f, id_token, id_token_expire > now)
                    ELSE [BeginRequest(f, "auth_refresh") EXCEPT
                              !.n_auth_refresh = @ + 1]]
    /\ UNCHANGED <<refresh_token, id_token, id_token_expire, now, issued>>
    /\ UNCHANGED pipe_vars

\* get_id_token as it would be if it dropped the stored token when the
\* exchange fails
auth_refresh_drops_token(t, outcomes) ==
    /\ th[t].pc = "auth_refresh"
    /\ \E o \in outcomes :
          LET f == [th[t] EXCEPT !.hist = Append(@, o)]
              v == Verdict("POST", method_whitelist_post, th[t].total, o)
          IN  \/ /\ v = "retry"
                 /\ th' = [th EXCEPT ![t] = [f EXCEPT !.total = @ - 1]]
                 /\ UNCHANGED <<issued, id_token>>
              \/ /\ v \in HttpErrors
                 /\ th' = [th EXCEPT ![t] = Raise(f, v, o.status)]
                 /\ id_token' = NoToken
                 /\ UNCHANGED issued
              \/ /\ v = "ok"
                 /\ \E wellformed \in BOOLEAN :
                       IF wellformed
                       THEN /\ issued' = issued + 1
                            /\ th' = [th EXCEPT ![t] =
                                        [f EXCEPT !.pc = "store_id_token",
                                                  !.new_id = issued + 1]]
                            /\ UNCHANGED id_token
                       ELSE /\ th' = [th EXCEPT ![t] = Raise(f, "KeyError", 0)]
                            /\ id_token' = NoToken
                            /\ UNCHANGED issued
    /\ UNCHANGED <<refresh_token, id_token_expire, now>>
    /\ UNCHANGED pipe_vars

\* get_id_token, lines 136-138: one attempt of the POST of
\* token/auth_refresh; when the response comes back, idToken is read
auth_refresh(t, outcomes) ==
    /\ th[t].pc = "auth_refresh"
    /\ \E o \in outcomes :
          LET f == [th[t] EXCEPT !.hist = Append(@, o)]
              v == Verdict("POST", method_whitelist_post, th[t].total, o)
          IN  \/ /\ v = "retry"
                 /\ th' = [th EXCEPT ![t] = [f EXCEPT !.total = @ - 1]]
                 /\ UNCHANGED issued
              \/ /\ v \in HttpErrors
                 /\ th' = [th EXCEPT ![t] = Raise(f, v, o.status)]
                 /\ UNCHANGED issued
              \/ /\ v = "ok"
                 /\ \E wellformed \in BOOLEAN :
                       IF wellformed
                       THEN /\ issued' = issued + 1
                            /\ th' = [th EXCEPT ![t] =
                                        [f EXCEPT !.pc = "store_id_token",
                                                  !.new_id = issued + 1]]
                       ELSE /\ th' = [th EXCEPT ![t] = Raise(f, "KeyError", 0)]
                            /\ UNCHANGED issued
    /\ UNCHANGED <<refresh_token, id_token, id_token_expire, now>>
    /\ UNCHANGED pipe_vars

\* get_id_token as it would be if it advanced the expiry where it stores
\* the token
store_id_token_expiry_first(t) ==
    /\ th[t].pc = "store_id_token"
    /\ id_token_expire' = now + TokenLifetime
    /\ th' = [th EXCEPT ![t].pc = "store_expire"]
    /\ UNCHANGED <<refresh_token, id_token, now, issued>>
    /\ UNCHANGED pipe_vars

\* get_id_token, line 139: `self._id_token = id_token`
store_id_token(t) ==
    /\ th[t].pc = "store_id_token"
    /\ id_token' = th[t].new_id
    /\ th' = [th EXCEPT ![t].pc = "store_expire"]
    /\ UNCHANGED <<refresh_token, id_token_expire, now, issued>>
    /\ UNCHANGED pipe_vars

\* get_id_token, line 140: the expiry is set 23 hours from now
store_expire(t) ==
    /\ th[t].pc = "store_expire"
    /\ id_token_expire' = now + TokenLifetime
    /\ th' = [th EXCEPT ![t].pc = "return_id_token"]
    /\ UNCHANGED <<refresh_token, id_token, now, issued>>
    /\ UNCHANGED pipe_vars

\* get_id_token, line 141: `return self._id_token`, and _base_headers
\* builds the header from it
return_id_token(t) ==
    /\ th[t].pc = "return_id_token"
    /\ th' = [th EXCEPT ![t] = WithHeaders(@, id_token, id_token_expire > now)]
    /\ UNCHANGED <<refresh_token, id_token, id_token_expire, now, issued>>
    /\ UNCHANGED pipe_vars

\* _get, lines 90-92: one attempt of s.get(url, params, headers, timeout=30),
\* then raise_for_status; the server answers an attempt that gets through
\* with one of bodies
attempt(t, outcomes, bodies) ==
    /\ th[t].pc = "send"
    /\ \E o \in outcomes :
          LET f == [th[t] EXCEPT !.hist = Append(@, o)]
              v == Verdict("GET", method_whitelist, th[t].total, o)
          IN  \/ /\ v = "retry"
                 /\ th' = [th EXCEPT ![t] = [f EXCEPT !.total = @ - 1]]
              \/ /\ v \in HttpErrors
                 /\ th' = [th EXCEPT ![t] = Raise(f, v, o.status)]
              \/ /\ v = "ok"
                 /\ \E b \in bodies :
                       th' = [th EXCEPT ![t] = [f EXCEPT !.pc = "read",
                                                         !.body = b]]
    /\ UNCHANGED <<refresh_token, id_token, id_token_expire, now, issued>>
    /\ UNCHANGED pipe_vars

\* the attempt against a server that sends at most cap records to one call
\* of an endpoint method
get(t, outcomes, cap) ==
    attempt(t, outcomes, Bodies(th[t].m, cap - Len(th[t].data)))

\* the bodies that are the only page of their answer, of a server whose
\* records carry the dates of the set dates and, in one answer, the fields
\* of one plan
OnePage(m, dates, cap) ==
    UNION {{b \in BodiesOf(m, records, cap) : "pagination_key" \notin DOMAIN b} :
           records \in RecordSets(m, dates)}

\* the attempt against a server that sends every answer in one page
get_one_page(t, outcomes, dates, cap) ==
    attempt(t, outcomes, OnePage(th[t].m, dates, cap - Len(th[t].data)))

\* the array the method reads from the response it has just got: the result
\* field after the first _get, the field of the loop body after a later one
ReadKey(m, site) == IF site = "first" THEN ResultKey(m) ELSE ContinuationKey(m)

\* `data = ret.json()[...]` after the first _get, `data += ret.json()[...]`
\* in the loop; _get has returned, its session and the record of its
\* attempts are gone
read(t) ==
    /\ th[t].pc = "read"
    /\ LET f   == th[t]
           key == ReadKey(f.m, f.site)
       IN  th' = [th EXCEPT ![t] =
                    IF key \notin DOMAIN f.body
                    THEN Raise(f, "KeyError", 0)
                    ELSE [f EXCEPT !.data = @ \o f.body[key],
                                   !.hist = << >>,
                                   !.total = 0,
                                   !.pc = IF Paginated(f.m) THEN "while"
                                          ELSE "normalize"]]
    /\ UNCHANGED <<refresh_token, id_token, id_token_expire, now, issued>>
    /\ UNCHANGED pipe_vars

\* `while "pagination_key" in ret.json()`: the cursor goes into params and
\* _get is called again, or the loop is left
while(t) ==
    /\ th[t].pc = "while"
    /\ LET f == th[t]
       IN  th' = [th EXCEPT ![t] =
                    IF "pagination_key" \in DOMAIN f.body
                    THEN EnterBaseHeaders(
                             [f EXCEPT !.params = [k \in {"pagination_key"} |->
                                                     f.body["pagination_key"]]
                                                   @@ f.params,
                                       !.site = "next"])
                    ELSE [f EXCEPT !.pc = "normalize"]]
    /\ UNCHANGED <<refresh_token, id_token, id_token_expire, now, issued>>
    /\ UNCHANGED pipe_vars

\* the rest of the method: the frame is built from data and returned
normalize(t) ==
    /\ th[t].pc = "normalize"
    /\ LET f == th[t]
           r == Normalize(f.m, f.flag, f.data)
       IN  IF r.err # "" THEN th' = [th EXCEPT ![t] = Raise(f, r.err, 0)]
           ELSE th' = [th EXCEPT ![t] = [f EXCEPT !.pc = "done", !.ret = r.df]]
    /\ UNCHANGED <<refresh_token, id_token, id_token_expire, now, issued>>
    /\ UNCHANGED pipe_vars

\* the caller has taken the result, or the exception, of the call
Return(t) ==
    /\ th[t].pc \in {"done", "failed"}
    /\ th' = [th EXCEPT ![t] = IdleFrame]
    /\ UNCHANGED <<refresh_token, id_token, id_token_expire, now, issued>>
    /\ UNCHANGED pipe_vars

\* time passes while a thread is between two calls or waits for the answer
\* to a request; the statements in between take no time on a clock that
\* counts hours
TickSteps == {11, 12}
Tick ==
    /\ \A t \in Threads :
          th[t].pc \in {"idle", "auth_user", "auth_refresh", "send", "done", "failed"}
    /\ \E d \in TickSteps : now + d <= MaxTime /\ now' = now + d
    /\ UNCHANGED <<refresh_token, id_token, id_token_expire, issued, th>>
    /\ UNCHANGED pipe_vars

(***************************************************************************)
(* The specifications.  Each lets the client run against a server and a    *)
(* clock that are rich in what the claims checked under it are about.      *)
(***************************************************************************)
Main == "t1"

\* what an attempt may meet, for the runs that are not about the retries
FewOutcomes == {Response(200, FALSE), Response(404, FALSE), Response(503, FALSE)}

\* what an attempt may meet, for the runs that are about the retries
AllOutcomes ==
    {Timeout}
        \cup {Response(s, FALSE) : s \in {200, 400, 401, 403, 404, 413, 429,
                                         500, 501, 502, 503, 504}}
        \cup {Response(s, TRUE) : s \in {404, 413, 429}}

\* the steps of thread t inside a call
Step(t, outcomes, cap) ==
    \/ BaseHeaders(t)
    \/ get_refresh_token(t, outcomes)
    \/ store_refresh_token(t)
    \/ get_id_token(t)
    \/ auth_refresh(t, outcomes)
    \/ store_id_token(t)
    \/ store_expire(t)
    \/ return_id_token(t)
    \/ get(t, outcomes, cap)
    \/ read(t)
    \/ while(t)
    \/ normalize(t)

\* the steps of thread t inside a call, against a server that sends every
\* answer in one page
StepOnePage(t, outcomes, dates, cap) ==
    \/ BaseHeaders(t)
    \/ get_refresh_token(t, outcomes)
    \/ store_refresh_token(t)
    \/ get_id_token(t)
    \/ auth_refresh(t, outcomes)
    \/ store_id_token(t)
    \/ store_expire(t)
    \/ return_id_token(t)
    \/ get_one_page(t, outcomes, dates, cap)
    \/ read(t)
    \/ while(t)
    \/ normalize(t)

\* Pages and frames: one thread calls any endpoint method, again and again;
\* the server sends records; the clock stands still
NextPages ==
    \/ Call(Main, Methods)
    \/ Step(Main, FewOutcomes, MaxRecords)
    \/ Return(Main)

SpecPages == Init /\ [][NextPages]_vars

\* Tokens: one thread calls a paginated and an unpaginated method,
\* _base_headers and the two public token methods, again and again; the
\* clock runs; the server sends no records
NextTokens ==
    \/ Call(Main, {"get_topix", "get_listed_info"})
    \/ CallBaseHeaders(Main)
    \/ CallGetRefreshToken(Main)
    \/ CallGetIdToken(Main)
    \/ Step(Main, FewOutcomes, 0)
    \/ Return(Main)
    \/ Tick

SpecTokens == Init /\ [][NextTokens]_vars

\* The loop: one thread calls the paginated methods get_weekly_interest and
\* get_topix, again and again; the server sends at most LoopRecords records
NextLoop ==
    \/ Call(Main, {"get_weekly_interest", "get_topix"})
    \/ Step(Main, FewOutcomes, LoopRecords)
    \/ Return(Main)

SpecLoop == Init /\ [][NextLoop]_vars

\* The loop, with the steps inside a call weakly fair: a call that can go on
\* does go on
FairSpecLoop == SpecLoop /\ WF_vars(Step(Main, FewOutcomes, LoopRecords))

\* Retries: one thread calls get_topix, again and again; an attempt may meet
\* any status or a timeout
NextRetry ==
    \/ Call(Main, {"get_topix"})
    \/ Step(Main, AllOutcomes, 0)
    \/ Return(Main)

SpecRetry == Init /\ [][NextRetry]_vars

\* Threads: every thread calls _base_headers once, all on one client
NextThreads ==
    \E t \in Threads :
        \/ CallBaseHeaders(t)
        \/ BaseHeaders(t)
        \/ get_refresh_token(t, FewOutcomes)
        \/ store_refresh_token(t)
        \/ get_id_token(t)
        \/ auth_refresh(t, FewOutcomes)
        \/ store_id_token(t)
        \/ store_expire(t)
        \/ return_id_token(t)

SpecThreads == Init /\ [][NextThreads]_vars

(***************************************************************************)
(* The steps of a range fetch (get_*_range), made by thread Main.          *)
(***************************************************************************)
\* the frame of get_*_range(start_dt, end_dt) at its loop, buff empty and
\* dates computed
EnterRange(rm, start_dt, end_dt) ==
    [IdleRange EXCEPT !.pc = "for",
                      !.m = rm,
                      !.dates = date_range(start_dt, end_dt, RangeFreq(rm)),
                      !.i = 1]

\* a call get_*_range(start_dt, end_dt) of one of the methods rms over one
\* of the windows
CallRange(rms, windows) ==
    /\ rg.pc = "idle"
    /\ th[Main].pc = "idle"
    /\ \E rm \in rms : \E w \in windows[rm] :
          rg' = EnterRange(rm, w[1], w[2])
    /\ UNCHANGED <<served, refresh_token, id_token, id_token_expire, now, issued, th,
                   run, fs, store>>

\* `for s in dates:` the endpoint method is called for the next date, or the
\* loop is left
range_for ==
    /\ rg.pc = "for"
    /\ th[Main].pc = "idle"
    /\ IF rg.i <= Len(rg.dates)
       THEN /\ rg' = [rg EXCEPT !.pc = "unit"]
            /\ th' = [th EXCEPT ![Main] =
                        EnterBaseHeaders(
                            [IdleFrame EXCEPT
                                !.kind = "get",
                                !.m = UnitMethod(rg.m),
                                !.flag = RangeFlag(rg.m),
                                !.site = "first",
                                !.params = [k \in {"date"} |->
                                              strftime(rg.dates[rg.i])]])]
       ELSE /\ rg' = [rg EXCEPT !.pc = "return"]
            /\ UNCHANGED th
    /\ UNCHANGED <<served, refresh_token, id_token, id_token_expire, now, issued,
                   run, fs, store>>

\* the range fetch as it would be if a date whose call fails were skipped
range_append_skip_failed ==
    /\ rg.pc = "unit"
    /\ th[Main].pc \in {"done", "failed"}
    /\ rg' = IF th[Main].pc = "done"
             THEN [rg EXCEPT !.buff = Append(@, th[Main].ret),
                             !.i = @ + 1,
                             !.pc = "for"]
             ELSE [rg EXCEPT !.i = @ + 1, !.pc = "for"]
    /\ th' = [th EXCEPT ![Main] = IdleFrame]
    /\ UNCHANGED <<served, refresh_token, id_token, id_token_expire, now, issued,
                   run, fs, store>>

\* `buff.append(df)`: the frame the endpoint method returned goes into buff;
\* an exception of the endpoint method is caught nowhere and ends the range
\* fetch
range_append ==
    /\ rg.pc = "unit"
    /\ th[Main].pc \in {"done", "failed"}
    /\ rg' = IF th[Main].pc = "done"
             THEN [rg EXCEPT !.buff = Append(@, th[Main].ret),
                             !.i = @ + 1,
                             !.pc = "for"]
             ELSE [rg EXCEPT !.pc = "failed", !.err = th[Main].err]
    /\ th' = [th EXCEPT ![Main] = IdleFrame]
    /\ UNCHANGED <<served, refresh_token, id_token, id_token_expire, now, issued,
                   run, fs, store>>

\* what the range fetch returns for the list buff: None for no frame and
\* for one empty frame, the frame for one frame, else the frames
\* concatenated
RangeResult(buff) ==
    IF Len(buff) = 0 THEN [none |-> TRUE, df |-> EmptyFrame(<< >>)]
    ELSE IF Len(buff) = 1
    THEN (IF Len(buff[1].rows) = 0
          THEN [none |-> TRUE, df |-> EmptyFrame(<< >>)]
          ELSE [none |-> FALSE, df |-> buff[1]])
    ELSE [none |-> FALSE, df |-> concat_all(buff)]

\* the end of get_*_range
range_return ==
    /\ rg.pc = "return"
    /\ rg' = [rg EXCEPT !.pc = "done",
                        !.none = RangeResult(rg.buff).none,
                        !.ret = RangeResult(rg.buff).df]
    /\ UNCHANGED <<served, refresh_token, id_token, id_token_expire, now, issued, th,
                   run, fs, store>>

\* the caller has taken the result, or the exception, of the range fetch
ReturnRange ==
    /\ rg.pc \in {"done", "failed"}
    /\ run.pc = "idle"
    /\ rg' = IdleRange
    /\ UNCHANGED <<served, refresh_token, id_token, id_token_expire, now, issued, th,
                   run, fs, store>>

\* the day number of a date YYYYMMDD
Day(ymd) == DaysFromCivil(ymd \div 10000, (ymd \div 100) % 100, ymd % 100)

\* the windows of the range fetches that stand alone: they begin on
\* 2024-03-02 at midnight and hold 0 to MaxUnits dates
RangeWindows ==
    [rm \in RangeMethods |->
        LET start_dt == Ts(Day(20240302), 0)
            first    == IF RangeFreq(rm) = "W-MON" THEN Ts(Day(20240304), 0)
                        ELSE start_dt
            period   == IF RangeFreq(rm) = "W-MON" THEN 7 * HoursPerDay
                        ELSE HoursPerDay
        IN  {<< start_dt, first + (k - 1) * period + 10 >> : k \in 0..MaxUnits}]

\* Ranges: one thread calls the range fetches, again and again; the server
\* sends at most UnitRecords records in answer to one call of an endpoint
\* method
NextRange ==
    \/ CallRange(RangeMethods, RangeWindows)
    \/ range_for
    \/ StepOnePage(Main, FewOutcomes, DateValues, UnitRecords)
    \/ range_append
    \/ range_return
    \/ ReturnRange

SpecRange == Init /\ [][NextRange]_vars

(***************************************************************************)
(* The update scripts main_local.py, main.py and main_s3.py.  A script is  *)
(* one process: it constructs a client, and runs its sections one after    *)
(* the other; an exception nobody catches ends the process.                *)
(***************************************************************************)
Scripts == {"main_local", "main", "main_s3"}

Tables == {"list", "price", "topix"}

\* the sections a script runs, in their order: main.py has the list section
\* only, and main_s3.py leaves at sys.exit() after its list section
Sections(script) ==
    IF script = "main_local" THEN << "list", "price", "topix" >>
    ELSE << "list" >>

\* the method a section fetches with
FetchMethod(table) ==
    CASE table = "list"  -> "get_list_range"
      [] table = "price" -> "get_price_range"
      [] table = "topix" -> "get_topix"

\* the endpoint method whose frame the section gets
TableUnit(table) ==
    IF table = "topix" THEN "get_topix" ELSE UnitMethod(FetchMethod(table))

\* the plan flag the section's fetch runs with: the defaults light_plan=True
\* and premium_plan=True
TableFlag(table) == table \in {"list", "price"}

\* the columns of the frame the section gets
TableCols(table) == Cols(TableUnit(table), TableFlag(table))

\* subset= of drop_duplicates
MergeKey(table) ==
    IF table = "topix" THEN << "Date" >> ELSE << "Code", "Date" >>

\* the hour before which the data of the day is not out yet
CutoffHour == 19

\* the sections that move end_dt back by a day before CutoffHour
HasCutoff(table) == table \in {"price", "topix"}

\* the scripts that test `start_dt <= end_dt` before they fetch
HasWindowTest(script) == script \in {"main_local", "main_s3"}

\* the dtypes of the columns of a frame whose values came from the JSON of
\* the server: a column of strings is object, one of whole numbers int64,
\* one of numbers with a fraction or with a missing value float64
ValueDtypes == {"object", "int64", "float64"}

\* df.dtypes where the columns of values are all of dtype ty: the columns
\* of dates are datetime64, those of text are object
dtypes(columns, ty) ==
    [c \in Range(columns) |->
        CASE c \in {"Date", "date", "dt"}                     -> "datetime64"
          [] c \in {"Code", "code", "symbol", "partition_dt"} -> "object"
          [] OTHER                                            -> ty]

\* stands for a float64 above np.finfo(np.float32).max, which is above
\* every integer of the model; its negative is below np.finfo(np.float32).min
BeyondFloat32 == 2147483647

\* the values of column c of df that min() and max() look at: NaN is skipped
ColumnValues(df, c) == {df.rows[i][c] : i \in DOMAIN df.rows} \ {NaN}

\* c_min > np.finfo(np.float32).min and c_max < np.finfo(np.float32).max;
\* a column without a value has c_min = c_max = NaN, and the test is false
InFloat32Range(values) ==
    /\ values # {}
    /\ \A v \in values : v > -BeyondFloat32 /\ v < BeyondFloat32

\* utils.reduce_mem_usage(df), dtype the dtypes of df: a column of dtype
\* object is left alone; one of an int dtype is cast to the narrowest int
\* dtype that holds it, and keeps its values; one of datetime64 raises at
\* the comparison with np.finfo and is skipped; one of float64 is cast to
\* float32 when its values are within the range of float32, and to float64
\* otherwise
reduce_mem_usage(df, dtype) ==
    LET cast == {c \in DOMAIN dtype :
                    /\ dtype[c] = "float64"
                    /\ InFloat32Range(ColumnValues(df, c))}
    IN  [columns |-> df.columns,
         rows    |-> [i \in DOMAIN df.rows |->
                        [c \in DOMAIN df.rows[i] |->
                            IF c \in cast THEN Float32(df.rows[i][c])
                            ELSE df.rows[i][c]]]]

\* sort_values(by=by) on one column
sort_values_by(rows, by) == sort_values(rows, << by >>)

\* pd.concat((prior, new)).drop_duplicates(subset=subset, keep="last")
\*   .sort_values(by=by).reset_index(drop=True)
Merge(prior, new, subset, by) ==
    LET both == concat(prior, new)
    IN  [columns |-> both.columns,
         rows    |-> sort_values_by(drop_duplicates(both.rows, subset), by)]

\* the lower-case name of a column of the list frame
lower(c) ==
    CASE c = "Date"               -> "date"
      [] c = "Code"               -> "code"
      [] c = "CompanyName"        -> "companyname"
      [] c = "CompanyNameEnglish" -> "companynameenglish"
      [] c = "Sector17Code"       -> "sector17code"
      [] c = "Sector17CodeName"   -> "sector17codename"
      [] c = "Sector33Code"       -> "sector33code"
      [] c = "Sector33CodeName"   -> "sector33codename"
      [] c = "ScaleCategory"      -> "scalecategory"
      [] c = "MarketCode"         -> "marketcode"
      [] c = "MarketCodeName"     -> "marketcodename"
      [] c = "MarginCode"         -> "margincode"
      [] c = "MarginCodeName"     -> "margincodename"
      [] OTHER                    -> c

\* the value of symbol in every row the store variant uploads
Symbol == "jquants_api"

\* df["Date"].dt raises AttributeError where the column is not of dtype
\* datetime64: every column of a frame without rows is of dtype object
DtRaises(df) == df.rows = << >>

\* df_l as the store variant prepares it, df a frame with rows: the column
\* names in lower case, and the columns symbol, dt and partition_dt added
StoreFrame(df) ==
    LET columns == [i \in DOMAIN df.columns |-> lower(df.columns[i])]
                      \o << "symbol", "dt", "partition_dt" >>
    IN  [columns |-> columns,
         rows    |-> [i \in DOMAIN df.rows |->
                        LET r == df.rows[i]
                        IN  [c \in Range(columns) |->
                                CASE c = "symbol"       -> Symbol
                                  [] c = "dt"           -> r["Date"]
                                  [] c = "partition_dt" -> MonthStart(r["Date"])
                                  [] OTHER ->
                                       r[CHOOSE k \in DOMAIN r : lower(k) = c]]]]

\* a row of a persisted artifact: the date day, code 1301, and 1 in every
\* other column (the rows the server sends hold 0 there)
PriorRow(columns, day) ==
    [c \in Range(columns) |->
        CASE c = "Date" -> day
          [] c = "Code" -> 1301
          [] OTHER      -> 1]

\* the artifacts a run may find: their rows end on 2024-03-01 ("upto0301"),
\* on 2024-03-04 ("upto0304"), or on 2024-03-03 ("upto0303", and with a
\* column more than the fetch brings, "wide", or without the last column of
\* the fetch, "narrow"); or they have a row of February and one of
\* 2024-03-01 ("months"); or there is none yet, and the table of the store
\* has no row ("fresh")
PriorKinds == {"upto0301", "upto0303", "upto0304", "wide", "narrow", "months",
               "fresh"}

PriorCols(table, kind) ==
    CASE kind = "wide"   -> TableCols(table) \o << UndeclaredField >>
      [] kind = "narrow" -> SubSeq(TableCols(table), 1, Len(TableCols(table)) - 1)
      [] OTHER           -> TableCols(table)

PriorDays(kind) ==
    CASE kind = "upto0301" -> << Day(20240301) >>
      [] kind = "upto0304" -> << Day(20240301), Day(20240304) >>
      [] kind = "months"   -> << Day(20240226), Day(20240301) >>
      [] kind = "fresh"    -> << >>
      [] OTHER             -> << Day(20240302), Day(20240303) >>

\* the day the artifacts were written: those that end on 2024-03-03 on
\* 2024-03-04, the others on 2024-03-01
PriorSaved(kind) == IF kind = "upto0303" THEN 20240304 ELSE 20240301

PriorFrame(table, kind) ==
    [columns |-> PriorCols(table, kind),
     rows    |-> [i \in DOMAIN PriorDays(kind) |->
                    PriorRow(PriorCols(table, kind), PriorDays(kind)[i])]]

\* a file of data/: the frame pickled in it, or a file whose writing broke
\* off
File(df) == [df |-> df, whole |-> TRUE]
BrokenFile == [df |-> EmptyFrame(<< >>), whole |-> FALSE]

\* the name <table>_20240101_<save_date>.pkl
Path(table, save_date) == [table |-> table, save_date |-> save_date]

\* the directory data/ with one artifact for each table
PriorDir(kind) ==
    IF kind = "fresh" THEN EmptyDir
    ELSE [p \in {Path(t, PriorSaved(kind)) : t \in Tables} |->
             File(PriorFrame(p.table, kind))]

\* the table list of the store with the rows of such an artifact
PriorStore(kind) ==
    IF kind = "fresh"
    THEN EmptyFrame(StoreFrame(PriorFrame("list", "upto0301")).columns)
    ELSE StoreFrame(PriorFrame("list", kind))

\* the state before the first run of a script
InitScripts ==
    /\ refresh_token = NoToken
    /\ id_token = NoToken
    /\ now = 0
    /\ id_token_expire = now
    /\ issued = 0
    /\ th = [t \in Threads |-> IdleFrame]
    /\ rg = IdleRange
    /\ run = IdleRun
    /\ \E kind \in PriorKinds :
          /\ fs = PriorDir(kind)
          /\ store = PriorStore(kind)
    /\ served \in Tables

\* the times at which a script is started
Clocks == {Ts(Day(20240304), 20), Ts(Day(20240305), 10)}

\* what a reading of the clock may give after one that gave clock
ClockReads(clock) == {c \in Clocks : c >= clock}

\* the script is started: a new process, with a new client; save_date is
\* read from the clock
StartScript(scripts, clocks) ==
    /\ run.pc = "idle"
    /\ rg.pc = "idle"
    /\ \A t \in Threads : th[t].pc = "idle"
    /\ \E s \in scripts : \E c \in clocks :
          /\ c > run.clock
          /\ run' = [IdleRun EXCEPT !.pc = "load",
                                    !.script = s,
                                    !.table = Sections(s)[1],
                                    !.clock = c,
                                    !.save_date = strftime(c),
                                    !.before = [fs |-> fs, store |-> store]]
    /\ refresh_token' = NoToken
    /\ id_token' = NoToken
    /\ now' = 0
    /\ id_token_expire' = 0
    /\ issued' = 0
    /\ UNCHANGED <<served, th, rg, fs, store>>

\* the frame r ended by an exception
Fail(r, type) == [r EXCEPT !.pc = "failed", !.err = Error(type, 0, r.pc),
                           !.outcome = "failed"]

\* the frame r at the end of its section
EndSection(r, outcome) == [r EXCEPT !.pc = "next", !.outcome = outcome]

\* what a discord_notify may meet: the post to Discord goes through; it
\* fails and the post to LINE goes through, with the exception as its text;
\* it fails and LINE answers with an error status, which line_notify does
\* not look at; both fail, and the exception of the second leaves
\* discord_notify
NotifyOutcomes == {"discord", "line", "lost", "raise"}

\* the text of the call after the upload, and that of the branch
\* FETCH_ALL_DATA
UploadedMessage == "Renewed and uploaded"
FullUploadedMessage == "Uploaded"

\* what the f-string of a message holds besides its text: table_name or
\* df_list, and start_dt and end_dt as %Y%m%d where the message has them
MessageOf(r, text) ==
    [message |-> text,
     table   |-> r.table,
     window  |-> IF text \in {UploadedMessage, FullUploadedMessage} THEN << >>
                 ELSE << strftime(r.start_dt), strftime(r.end_dt) >>]

\* the frame r after discord_notify(message)
Notified(r, message, o) ==
    IF o = "raise" THEN [Fail(r, "ConnectionError") EXCEPT !.err.at = "notify"]
    ELSE [r EXCEPT !.sent = Append(@, [note |-> MessageOf(r, message), via |-> o])]

\* glob.glob(RAW + "/<table>_*.pkl")
Glob(table) == {p \in DOMAIN fs : p.table = table}

\* pd.Timestamp(date, tz="Asia/Tokyo") + dt.timedelta(days=1), date the Date
\* of a row: the midnight after it, and NaT where the row has no Date
StartAfter(date) == IF date = NaN THEN NaN ELSE Ts(date, 0) + HoursPerDay

\* LOAD_PRIOR as it would be if it removed the artifact once it is read
load_prior_removes ==
    /\ run.pc = "load"
    /\ run.script \in {"main_local", "main"}
    /\ LET paths == Glob(run.table)
           p     == CHOOSE q \in paths : TRUE
       IN  IF Cardinality(paths) # 1 \/ ~fs[p].whole \/ Len(fs[p].df.rows) = 0
           THEN /\ run' = Fail(run, "AssertionError")
                /\ fs' = fs
           ELSE /\ run' = [run EXCEPT
                              !.pc = "window",
                              !.path = p,
                              !.df = fs[p].df,
                              !.prior = fs[p].df,
                              !.start_dt = StartAfter(Last(fs[p].df.rows)["Date"])]
                /\ fs' = [q \in DOMAIN fs \ {p} |-> fs[q]]
    /\ UNCHANGED <<served, refresh_token, id_token, id_token_expire, now, issued, th,
                   rg, store>>

\* what pd.read_pickle raises on a file whose writing broke off: EOFError
\* where the file is empty or ends between two items, UnpicklingError where
\* it ends within one
ReadPickleErrors == {"EOFError", "UnpicklingError"}

\* LOAD_PRIOR of a local script: the one artifact of the table is read and
\* start_dt is the day after the date of its last row
load_prior ==
    /\ run.pc = "load"
    /\ run.script \in {"main_local", "main"}
    /\ LET paths == Glob(run.table)
           p     == CHOOSE q \in paths : TRUE
       IN  IF Cardinality(paths) # 1 THEN run' = Fail(run, "AssertionError")
           ELSE IF ~fs[p].whole
           THEN \E e \in ReadPickleErrors : run' = Fail(run, e)
           ELSE IF Len(fs[p].df.rows) = 0 THEN run' = Fail(run, "IndexError")
           ELSE run' = [run EXCEPT
                           !.pc = "window",
                           !.path = p,
                           !.df = fs[p].df,
                           !.prior = fs[p].df,
                           !.start_dt = StartAfter(Last(fs[p].df.rows)["Date"])]
    /\ UNCHANGED <<served, refresh_token, id_token, id_token_expire, now, issued, th,
                   rg, fs, store>>

\* the rows of the table at or after start_dt that carry one of the symbols
Queried(table, start_dt, symbols) ==
    SelectSeq(table.rows,
              LAMBDA r : r["dt"] >= start_dt /\ r["symbol"] \in symbols)

\* query as it would be if it gave the last of those rows only
query_last_row(table, start_dt, symbols) ==
    LET rows == Queried(table, start_dt, symbols)
    IN  {[columns |-> table.columns,
          rows    |-> IF rows = << >> THEN << >> ELSE << Last(rows) >>]}

\* tsdb.query(table_name, field="*", start_dt=start_dt, symbols=symbols): all
\* the rows of the table at or after start_dt that carry one of the symbols.
\* The order in which they come is not stated: the frames it may return
\* are those rows in every order
query(table, start_dt, symbols) ==
    {[columns |-> table.columns, rows |-> rows] :
        rows \in Orders(Queried(table, start_dt, symbols))}

\* LOAD_PRIOR of the store variant: the rows of the table from the first day
\* of the month on are queried, and start_dt_jquants is the day after the
\* date of the last of them
load_store ==
    /\ run.pc = "load"
    /\ run.script = "main_s3"
    /\ \E dt_now \in ClockReads(run.clock) :
          LET start_dt_s3 == MonthStart(DayOf(dt_now))
              r           == [run EXCEPT !.clock = dt_now]
          IN  \E df \in query(store, start_dt_s3, {Symbol}) :
                 run' =
                   IF Len(df.rows) = 0 THEN Fail(r, "IndexError")
                   ELSE [r EXCEPT
                            !.pc = "window",
                            !.df = df,
                            !.prior = df,
                            !.start_dt = StartAfter(Last(df.rows)["date"])]
    /\ UNCHANGED <<served, refresh_token, id_token, id_token_expire, now, issued, th,
                   rg, fs, store>>

\* end_dt as it would be without the cutoff
WindowEnd_no_cutoff(table, clock) == clock

\* end_dt of a section started at clock
WindowEnd(table, clock) ==
    IF HasCutoff(table) /\ HourOf(clock) < CutoffHour
    THEN clock - HoursPerDay
    ELSE clock

\* is discord_notify called where the section finds start_dt > end_dt, and
\* where it finds that the fetch returned None
NotifiesSkip(script, table) ==
    table = "list" /\ script \in {"main_local", "main_s3"}

\* the message of such a call
SkipMessage == "Failed to update"
NoneMessage(script) ==
    IF script = "main_s3" THEN "There's no new data" ELSE "Failed to update"

\* COMPUTE_WINDOW and the call of the fetch: the clock is read and end_dt
\* is computed from the reading; a script that tests `start_dt <= end_dt`
\* and finds it false ends the section; else get_list_range,
\* get_price_range or get_topix is called.  With start_dt NaT the test is
\* false and start_dt.strftime, in the print of that branch, raises
\* ValueError; main.py, which has no test, calls get_list_range, whose
\* pd.date_range raises ValueError on a start that is NaT
compute_window ==
    /\ run.pc = "window"
    /\ th[Main].pc = "idle"
    /\ rg.pc = "idle"
    /\ \E clock \in ClockReads(run.clock) :
       LET end_dt == WindowEnd(run.table, clock)
           r      == [run EXCEPT !.clock = clock, !.end_dt = end_dt]
       IN  IF run.start_dt = NaN
           THEN /\ run' = Fail(r, "ValueError")
                /\ UNCHANGED <<th, rg>>
           ELSE IF HasWindowTest(run.script) /\ ~(run.start_dt <= end_dt)
           THEN /\ IF NotifiesSkip(run.script, run.table)
                   THEN \E o \in NotifyOutcomes :
                           run' = LET n == Notified(r, SkipMessage, o)
                                  IN  IF o = "raise" THEN n
                                      ELSE EndSection(n, "no_new_data")
                   ELSE run' = EndSection(r, "no_new_data")
                /\ UNCHANGED <<th, rg>>
           ELSE /\ run' = [r EXCEPT !.pc = "fetch"]
                /\ IF run.table = "topix"
                   THEN /\ th' = [th EXCEPT ![Main] =
                                    EnterBaseHeaders(
                                        [IdleFrame EXCEPT
                                            !.kind = "get",
                                            !.m = "get_topix",
                                            !.site = "first",
                                            !.params =
                                                [k \in {"from", "to"} |->
                                                    IF k = "from"
                                                    THEN strftime(run.start_dt)
                                                    ELSE strftime(end_dt)]])]
                        /\ UNCHANGED rg
                   ELSE /\ rg' = EnterRange(FetchMethod(run.table),
                                            run.start_dt, end_dt)
                        /\ UNCHANGED th
    /\ UNCHANGED <<served, refresh_token, id_token, id_token_expire, now, issued,
                   fs, store>>

\* the fetch is over: its exception ends the script; None ends the section,
\* with a discord_notify in the list sections of main_local.py and
\* main_s3.py; a frame goes to MERGE
fetch_return ==
    /\ run.pc = "fetch"
    /\ IF run.table = "topix"
       THEN /\ th[Main].pc \in {"done", "failed"}
            /\ run' = IF th[Main].pc = "failed"
                      THEN [Fail(run, th[Main].err.type) EXCEPT !.err = th[Main].err]
                      ELSE [run EXCEPT !.pc = "merge", !.new = th[Main].ret]
            /\ th' = [th EXCEPT ![Main] = IdleFrame]
            /\ UNCHANGED rg
       ELSE /\ rg.pc \in {"done", "failed"}
            /\ rg' = IdleRange
            /\ UNCHANGED th
            /\ IF rg.pc = "failed"
               THEN run' = [Fail(run, rg.err.type) EXCEPT !.err = rg.err]
               ELSE IF rg.none
               THEN LET r == [run EXCEPT !.none = TRUE]
                    IN  IF NotifiesSkip(run.script, run.table)
                        THEN \E o \in NotifyOutcomes :
                                run' = LET n == Notified(r, NoneMessage(run.script), o)
                                       IN  IF o = "raise" THEN n
                                           ELSE EndSection(n, "no_new_data")
                        ELSE run' = EndSection(r, "no_new_data")
               ELSE run' = [run EXCEPT !.pc = "merge", !.new = rg.ret]
    /\ UNCHANGED <<served, refresh_token, id_token, id_token_expire, now, issued,
                   fs, store>>

\* MERGE of a local script, and reduce_mem_usage
merge ==
    /\ run.pc = "merge"
    /\ run.script \in {"main_local", "main"}
    /\ LET df == Merge(run.df, run.new, MergeKey(run.table), "Date")
       IN  \E ty \in ValueDtypes :
              run' = [run EXCEPT
                         !.pc = "write",
                         !.df = reduce_mem_usage(df, dtypes(df.columns, ty))]
    /\ UNCHANGED <<served, refresh_token, id_token, id_token_expire, now, issued, th,
                   rg, fs, store>>

\* MERGE of the store variant: df_l is prepared, which raises where it has
\* no row, and merged, and the assert compares the number of columns of the
\* merged frame with that of df_l
merge_store ==
    /\ run.pc = "merge"
    /\ run.script = "main_s3"
    /\ IF DtRaises(run.new)
       THEN run' = Fail(run, "AttributeError")
       ELSE LET df_l == StoreFrame(run.new)
                df_list == Merge(run.df, df_l, << "code", "date" >>, "date")
            IN  \E ty \in ValueDtypes :
                   run' = IF Len(df_list.columns) # Len(df_l.columns)
                          THEN Fail([run EXCEPT !.new = df_l], "AssertionError")
                          ELSE [run EXCEPT
                                   !.pc = "upload",
                                   !.new = df_l,
                                   !.df = reduce_mem_usage(
                                              df_list, dtypes(df_list.columns, ty))]
    /\ UNCHANGED <<served, refresh_token, id_token, id_token_expire, now, issued, th,
                   rg, fs, store>>

\* the directory dir with file f under the name p
Put(dir, p, f) == [q \in DOMAIN dir \cup {p} |-> IF q = p THEN f ELSE dir[q]]

\* what to_pickle may meet: the file is written; the file cannot be opened;
\* the file is opened, which empties it, and the writing breaks off
WriteOutcomes == {"written", "refused", "broken"}

\* PERSIST of a local script, first half:
\* df.to_pickle(RAW + f"/<table>_20240101_{save_date}.pkl")
write ==
    /\ run.pc = "write"
    /\ LET p == Path(run.table, run.save_date)
       IN  \E o \in WriteOutcomes :
              \/ /\ o = "written"
                 /\ fs' = Put(fs, p, File(run.df))
                 /\ run' = [run EXCEPT !.pc = "remove"]
              \/ /\ o = "refused"
                 /\ fs' = fs
                 /\ run' = Fail(run, "OSError")
              \/ /\ o = "broken"
                 /\ fs' = Put(fs, p, BrokenFile)
                 /\ run' = Fail(run, "OSError")
    /\ UNCHANGED <<served, refresh_token, id_token, id_token_expire, now, issued, th,
                   rg, store>>

\* PERSIST of a local script, second half: os.remove(path[0])
remove ==
    /\ run.pc = "remove"
    /\ fs' = [q \in DOMAIN fs \ {run.path} |-> fs[q]]
    /\ run' = EndSection(run, "persisted")
    /\ UNCHANGED <<served, refresh_token, id_token, id_token_expire, now, issued, th,
                   rg, store>>

\* the partitions of the rows of a frame
Partitions(rows) == {<< r["partition_dt"], r["symbol"] >> : r \in Range(rows)}

\* the rows to_parquet writes: it splits df into its partitions with
\* groupby, which leaves out a row that has no value in a partition column
\* (symbol is a constant of the caller; partition_dt is NaT where dt is)
Partitioned(rows) == SelectSeq(rows, LAMBDA r : r["partition_dt"] # NaN)

\* df as to_parquet writes it when database and table are given: the names
\* of its columns are sanitised, which puts them in lower case (no column
\* of the scripts has a character that sanitising replaces)
Sanitized(df) ==
    [columns |-> [i \in DOMAIN df.columns |-> lower(df.columns[i])],
     rows    |-> [i \in DOMAIN df.rows |->
                    LET r == df.rows[i]
                    IN  [c \in {lower(k) : k \in DOMAIN r} |->
                            r[CHOOSE k \in DOMAIN r : lower(k) = c]]]]

\* the table after to_parquet(df, database=..., table=...,
\* mode="overwrite_partitions"): the rows of the partitions df has rows of
\* are replaced by the rows of df, under the sanitised names
Overwritten(table, df) ==
    LET clean   == Sanitized(df)
        new     == [clean EXCEPT !.rows = Partitioned(clean.rows)]
        columns == table.columns
                      \o SelectSeq(new.columns, LAMBDA c : c \notin Range(table.columns))
        kept    == SelectSeq(table.rows,
                       LAMBDA r : << r["partition_dt"], r["symbol"] >>
                                      \notin Partitions(new.rows))
    IN  [columns |-> columns,
         rows    |-> Reindex(kept, columns) \o Reindex(new.rows, columns)]

\* what upload may meet: the partitions are written; nothing is written
UploadOutcomes == {"written", "refused"}

\* PERSIST of the store variant: tsdb.upload(table_name, df=df_list)
upload ==
    /\ run.pc = "upload"
    /\ IF {"partition_dt", "dt", "symbol"} \subseteq Range(run.df.columns)
       THEN \E o \in UploadOutcomes :
               \/ /\ o = "written"
                  /\ store' = Overwritten(store, run.df)
                  /\ run' = [run EXCEPT !.pc = "notify"]
               \/ /\ o = "refused"
                  /\ store' = store
                  /\ run' = Fail(run, "ClientError")
       ELSE /\ store' = store
            /\ run' = Fail(run, "ValueError")
    /\ UNCHANGED <<served, refresh_token, id_token, id_token_expire, now, issued, th,
                   rg, fs>>

\* the call that follows the upload: discord_notify("Renewed and uploaded:
\* list"), or discord_notify("Uploaded: list") with FETCH_ALL_DATA = True
notify_uploaded ==
    /\ run.pc = "notify"
    /\ \E n \in NotifyOutcomes :
          run' = LET r == Notified(run, IF run.FETCH_ALL_DATA
                                        THEN FullUploadedMessage
                                        ELSE UploadedMessage, n)
                 IN  IF n = "raise" THEN r ELSE EndSection(r, "persisted")
    /\ UNCHANGED <<served, refresh_token, id_token, id_token_expire, now, issued, th,
                   rg, fs, store>>

\* the section is over: the next one begins, or the script ends
next_section ==
    /\ run.pc = "next"
    /\ LET secs == Sections(run.script)
           k    == CHOOSE i \in DOMAIN secs : secs[i] = run.table
       IN  run' = IF k = Len(secs) THEN [run EXCEPT !.pc = "done"]
                  ELSE [IdleRun EXCEPT !.pc = "load",
                                       !.script = run.script,
                                       !.table = secs[k + 1],
                                       !.clock = run.clock,
                                       !.save_date = run.save_date,
                                       !.sent = run.sent,
                                       !.before = [fs |-> fs, store |-> store]]
    /\ UNCHANGED <<served, refresh_token, id_token, id_token_expire, now, issued, th,
                   rg, fs, store>>

\* the process of the script is gone
ExitScript ==
    /\ run.pc \in {"done", "failed"}
    /\ run' = [IdleRun EXCEPT !.clock = run.clock]
    /\ UNCHANGED <<served, refresh_token, id_token, id_token_expire, now, issued, th,
                   rg, fs, store>>

\* what an attempt of a request of the scripts may meet: an answer, or a
\* status that ends the request at once (the retries are the matter of
\* SpecRetry)
ScriptOutcomes == {Response(200, FALSE), Response(404, FALSE)}

\* the dates of the records the server of the scripts sends: 2024-03-02,
\* 2024-03-04 and the empty string, which the fetch turns into NaT (a string
\* that is no date ends the fetch, as a malformed body does; it is the matter
\* of SpecRange)
ScriptDates == {20240302, 20240304, NatString}

\* Scripts: the update scripts are run one after the other, at later and
\* later times, against a server that has records for the table served,
\* at most UnitRecords in answer to one call of an endpoint method, and none
\* for the other tables
NextScripts ==
    \/ StartScript(Scripts, Clocks)
    \/ load_prior
    \/ load_store
    \/ compute_window
    \/ range_for
    \/ StepOnePage(Main, ScriptOutcomes, ScriptDates,
                   IF run.table = served THEN UnitRecords ELSE 0)
    \/ range_append
    \/ range_return
    \/ fetch_return
    \/ merge
    \/ merge_store
    \/ write
    \/ remove
    \/ upload
    \/ notify_uploaded
    \/ next_section
    \/ ExitScript

SpecScripts == InitScripts /\ [][NextScripts]_vars

(***************************************************************************)
(* MERGE on its own: a section that has loaded the artifact and has got    *)
(* its fetch, for every artifact and every fetch of a few rows.            *)
(***************************************************************************)
\* the most rows of the artifact, and of the fetch
MergeRows == 2

MergeCodes == {1301, 1332}
MergeDays == {Day(20240301), Day(20240302)}
\* the value of the other columns: in a row of the artifact, and in a row
\* of the fetch
PriorVals == {1}
FetchVals == {0, 2}

\* a row of a table: its Date, its Code where the table has one, and the
\* value v in every other column
MergeRow(columns, day, code, v) ==
    [c \in Range(columns) |->
        CASE c = "Date" -> day
          [] c = "Code" -> code
          [] OTHER      -> v]

\* the frames of a table with at most MergeRows rows, in any order and with
\* any key twice
MergeFrames(table, vals) ==
    {[columns |-> TableCols(table), rows |-> s] :
        s \in SeqsUpTo({MergeRow(TableCols(table), d, c, v) :
                            d \in MergeDays, c \in MergeCodes, v \in vals},
                       MergeRows)}

\* the artifacts of a few rows
ShortPriors(table) == MergeFrames(table, PriorVals)

\* the rows of the long artifact
LongRows == 18

\* an artifact as a fetch of everything leaves it for a table with a Code:
\* LongRows rows of 2024-03-01, one for each Code, in the order of the Codes
LongPriors(table) ==
    IF "Code" \notin Range(TableCols(table)) THEN {}
    ELSE {[columns |-> TableCols(table),
           rows    |-> [i \in 1..LongRows |->
                          MergeRow(TableCols(table), Day(20240301), 1300 + i, 1)]]}

\* the artifacts of MERGE on its own
MergePriors(table) == ShortPriors(table) \cup LongPriors(table)

\* the places of rows where a row comes before the row it follows in the
\* order of key
Descents(rows, key) ==
    {i \in 1..(Len(rows) - 1) : RowBefore(key, rows[i + 1], rows[i], 1)}

\* the frames the fetch of a section hands to MERGE for the window from
\* start_dt to end_dt. get_list_range and get_price_range ask once for each
\* date of the window, each answer comes back in the order of its sort, and
\* the answers are put one after the other; with no date, and with one date
\* and no row, they return None and MERGE is not reached. get_topix asks
\* once, and returns its frame with or without rows
FetchFrames(table, start_dt, end_dt) ==
    LET calls == IF table = "topix" THEN 1
                 ELSE Len(date_range(start_dt, end_dt,
                                     RangeFreq(FetchMethod(table))))
    IN  {N \in MergeFrames(table, FetchVals) :
            /\ calls >= 1
            /\ Cardinality(Descents(N.rows, SortKey(TableUnit(table)))) < calls
            /\ (table # "topix" /\ calls = 1) => N.rows # << >>}

\* a section of one of the scripts at MERGE: the artifact read is P (it has a
\* row, or LOAD_PRIOR would have failed; long: it may have LongRows rows), the
\* fetch is N
MergeStart(scripts, long) ==
    /\ refresh_token = NoToken
    /\ id_token = NoToken
    /\ now = 0
    /\ id_token_expire = now
    /\ issued = 0
    /\ th = [t \in Threads |-> IdleFrame]
    /\ rg = IdleRange
    /\ \E s \in scripts : \E i \in DOMAIN Sections(s) :
       \E P \in (IF long THEN MergePriors(Sections(s)[i])
                       ELSE ShortPriors(Sections(s)[i])) :
          LET table == Sections(s)[i]
              clock == Ts(Day(20240305), 10)
              path  == Path(table, 20240301)
              dir   == [p \in {path} |-> File(P)]
              \* the rows query returns, in the order P has them: the other
              \* orders are those of the other P
              prior == IF s = "main_s3"
                       THEN [columns |-> StoreFrame(P).columns,
                             rows    |-> Queried(StoreFrame(P),
                                                 MonthStart(DayOf(clock)), {Symbol})]
                       ELSE P
              start == StartAfter(Last(prior.rows)[IF s = "main_s3" THEN "date"
                                                   ELSE "Date"])
              end   == WindowEnd(table, clock)
          IN  /\ P.rows # << >>
              /\ served = table
              /\ fs = (IF s = "main_s3" THEN EmptyDir ELSE dir)
              /\ store = (IF s = "main_s3" THEN StoreFrame(P) ELSE EmptyStore)
              /\ \E N \in FetchFrames(table, start, end) :
                 run = [IdleRun EXCEPT
                           !.pc = "merge",
                           !.script = s,
                           !.table = table,
                           !.clock = clock,
                           !.save_date = strftime(clock),
                           !.path = (IF s = "main_s3" THEN NoPath ELSE path),
                           !.df = prior,
                           !.prior = prior,
                           !.start_dt = start,
                           !.end_dt = end,
                           !.new = N,
                           !.before = [fs    |-> IF s = "main_s3" THEN EmptyDir ELSE dir,
                                       store |-> IF s = "main_s3" THEN StoreFrame(P)
                                                 ELSE EmptyStore]]

InitMerge == MergeStart(Scripts, TRUE)

NextMerge == merge \/ merge_store

SpecMerge == InitMerge /\ [][NextMerge]_vars

(***************************************************************************)
(* upload on its own: called by main_s3.py after its merge, by main_s3.py  *)
(* as it is with FETCH_ALL_DATA = True, and by a caller that hands it any  *)
(* frame, as try_athena-timeseries.py hands it one of its own making.      *)
(***************************************************************************)
\* the columns upload asks for
UploadCols == {"partition_dt", "dt", "symbol"}

\* the frame df without the columns of drop
Without(df, drop) ==
    [columns |-> SelectSeq(df.columns, LAMBDA c : c \notin drop),
     rows    |-> [i \in DOMAIN df.rows |->
                    [c \in DOMAIN df.rows[i] \ drop |-> df.rows[i][c]]]]

\* df_l of the branch FETCH_ALL_DATA of main_s3.py: reduce_mem_usage, then
\* symbol, dt and partition_dt are added; the names of the columns stay
FullFetchFrame(df, dtype) ==
    LET small   == reduce_mem_usage(df, dtype)
        columns == small.columns \o << "symbol", "dt", "partition_dt" >>
    IN  [columns |-> columns,
         rows    |-> [i \in DOMAIN small.rows |->
                        LET r == small.rows[i]
                        IN  [c \in Range(columns) |->
                                CASE c = "symbol"       -> Symbol
                                  [] c = "dt"           -> r["Date"]
                                  [] c = "partition_dt" -> MonthStart(r["Date"])
                                  [] OTHER              -> r[c]]]]

\* the tables of the store an upload may find
UploadStores == {PriorStore("fresh"), PriorStore("upto0301")}

\* main_s3.py with FETCH_ALL_DATA = True at its upload, N fetched
FullFetchStart ==
    \E N \in MergeFrames("list", FetchVals) : \E S \in UploadStores :
    \E ty \in ValueDtypes :
        LET clock == Ts(Day(20240305), 10)
        IN  /\ N.rows # << >>
            /\ store = S
            /\ run = [IdleRun EXCEPT
                         !.pc = "upload",
                         !.script = "main_s3",
                         !.FETCH_ALL_DATA = TRUE,
                         !.table = "list",
                         !.clock = clock,
                         !.save_date = strftime(clock),
                         !.start_dt = Ts(Day(20240101), 0),
                         !.end_dt = clock,
                         !.new = N,
                         !.df = FullFetchFrame(N, dtypes(N.columns, ty)),
                         !.before = [fs |-> EmptyDir, store |-> S]]

\* a caller at tsdb.upload(table_name, df=df), df lacking the columns drop
CallStart ==
    \E N \in MergeFrames("list", FetchVals) : \E S \in UploadStores :
    \E drop \in SUBSET UploadCols :
        /\ N.rows # << >>
        /\ store = S
        /\ run = [IdleRun EXCEPT
                     !.pc = "call",
                     !.table = "list",
                     !.df = Without(StoreFrame(N), drop),
                     !.before = [fs |-> EmptyDir, store |-> S]]

InitUpload ==
    \/ MergeStart({"main_s3"}, FALSE)
    \/ /\ refresh_token = NoToken
       /\ id_token = NoToken
       /\ now = 0
       /\ id_token_expire = now
       /\ issued = 0
       /\ th = [t \in Threads |-> IdleFrame]
       /\ rg = IdleRange
       /\ served = "list"
       /\ fs = EmptyDir
       /\ (FullFetchStart \/ CallStart)

\* upload as it would be if it let a frame without the columns pass
tsdb_upload_unchecked ==
    /\ run.pc = "call"
    /\ IF UploadCols \subseteq Range(run.df.columns)
       THEN \E o \in UploadOutcomes :
               \/ /\ o = "written"
                  /\ store' = Overwritten(store, run.df)
                  /\ run' = [run EXCEPT !.pc = "done", !.outcome = "persisted"]
               \/ /\ o = "refused"
                  /\ store' = store
                  /\ run' = Fail(run, "ClientError")
       ELSE /\ store' = store
            /\ run' = [run EXCEPT !.pc = "done", !.outcome = "persisted"]
    /\ UNCHANGED <<served, refresh_token, id_token, id_token_expire, now, issued, th,
                   rg, fs>>

\* upload(table_name, df): ValueError when df lacks one of the three
\* columns; else the partitions of df are written
tsdb_upload ==
    /\ run.pc = "call"
    /\ IF UploadCols \subseteq Range(run.df.columns)
       THEN \E o \in UploadOutcomes :
               \/ /\ o = "written"
                  /\ store' = Overwritten(store, run.df)
                  /\ run' = [run EXCEPT !.pc = "done", !.outcome = "persisted"]
               \/ /\ o = "refused"
                  /\ store' = store
                  /\ run' = Fail(run, "ClientError")
       ELSE /\ store' = store
            /\ run' = Fail(run, "ValueError")
    /\ UNCHANGED <<served, refresh_token, id_token, id_token_expire, now, issued, th,
                   rg, fs>>

NextUpload == merge_store \/ upload \/ notify_uploaded \/ tsdb_upload

SpecUpload == InitUpload /\ [][NextUpload]_vars

(***************************************************************************)
(* The range fetches against a server that answers the call for a date     *)
(* with records of that date only.                                         *)
(***************************************************************************)
\* the issue codes (and the other non-date values of a sort key) the server
\* has records for
OrderCodes == {1301, 1332}

\* the response bodies to a call of method m for the date `date`: one page
\* with at most cap records, every date field of every record being `date`
DatedBodies(m, date, codes, cap) ==
    {[f \in {ResultKey(m)} |-> p] :
        p \in SeqsUpTo({MkRec(m, "full", date, c) : c \in codes}, cap)}

\* the attempt against that server
get_dated(t, outcomes, codes, cap) ==
    attempt(t, outcomes, DatedBodies(th[t].m, th[t].params["date"], codes, cap))

\* the steps of thread t inside a call, against that server
StepDated(t, outcomes, codes, cap) ==
    \/ BaseHeaders(t)
    \/ get_refresh_token(t, outcomes)
    \/ store_refresh_token(t)
    \/ get_id_token(t)
    \/ auth_refresh(t, outcomes)
    \/ store_id_token(t)
    \/ store_expire(t)
    \/ return_id_token(t)
    \/ get_dated(t, outcomes, codes, cap)
    \/ read(t)
    \/ while(t)
    \/ normalize(t)

\* Order: one thread calls the range fetches, again and again; the server
\* answers each call with at most MaxRecords records of the date asked for
NextOrder ==
    \/ CallRange(RangeMethods, RangeWindows)
    \/ range_for
    \/ StepDated(Main, FewOutcomes, OrderCodes, MaxRecords)
    \/ range_append
    \/ range_return
    \/ ReturnRange

SpecOrder == Init /\ [][NextOrder]_vars

(***************************************************************************)
(* get_statements_range with its cache of one file for each date.          *)
(***************************************************************************)
\* the values of the argument cache_dir: the default, and a directory
CacheDirs == {"", "cache"}

\* the file f"{cache_dir}/{s.strftime('%Y')}/fins_statements_{s.strftime('%Y%m%d')}.csv.gz"
\* of the date s
CacheFile(s) == Path("fins_statements", strftime(s))

\* df.to_csv(..., index=False) of a frame of method m and pd.read_csv of the
\* file: the columns come back as they were, a Timestamp comes back as the
\* string of its date and is not parsed again, a missing value stays missing
to_csv(m, df) ==
    [columns |-> df.columns,
     rows    |-> [i \in DOMAIN df.rows |->
                    [c \in Range(df.columns) |->
                        IF c \in DateCols(m) /\ df.rows[i][c] # NaN
                        THEN strftime(Ts(df.rows[i][c], 0))
                        ELSE df.rows[i][c]]]]

\* pd.read_csv of the cache file p
read_csv(p) == fs[p].df

\* a call get_statements_range(start_dt, end_dt, cache_dir) over one of the
\* windows
CallStatements(windows, cache_dirs) ==
    /\ rg.pc = "idle"
    /\ th[Main].pc = "idle"
    /\ \E w \in windows : \E d \in cache_dirs :
          rg' = [EnterRange("get_statements_range", w[1], w[2]) EXCEPT
                     !.cache_dir = d]
    /\ UNCHANGED <<served, refresh_token, id_token, id_token_expire, now, issued, th,
                   run, fs, store>>

\* `for s in dates:` of get_statements_range: the frame of the date is read
\* from its cache file when cache_dir is set and the file exists, else
\* get_fins_statements is called for the date; after the last date the loop
\* is left
statements_for ==
    /\ rg.pc = "for"
    /\ rg.m = "get_statements_range"
    /\ th[Main].pc = "idle"
    /\ IF rg.i > Len(rg.dates)
       THEN /\ rg' = [rg EXCEPT !.pc = "return"]
            /\ UNCHANGED th
       ELSE IF rg.cache_dir # "" /\ CacheFile(rg.dates[rg.i]) \in DOMAIN fs
       THEN /\ rg' = [rg EXCEPT
                         !.buff = Append(@, read_csv(CacheFile(rg.dates[rg.i]))),
                         !.i = @ + 1]
            /\ UNCHANGED th
       ELSE /\ rg' = [rg EXCEPT !.pc = "unit",
                               !.fetched = Append(@, rg.dates[rg.i])]
            /\ th' = [th EXCEPT ![Main] =
                        EnterBaseHeaders(
                            [IdleFrame EXCEPT
                                !.kind = "get",
                                !.m = "get_fins_statements",
                                !.site = "first",
                                !.params = [k \in {"date"} |->
                                              strftime(rg.dates[rg.i])]])]
    /\ UNCHANGED <<served, refresh_token, id_token, id_token_expire, now, issued,
                   run, fs, store>>

\* get_statements_range as it would be if it wrote no cache file
statements_append_no_write ==
    /\ rg.pc = "unit"
    /\ rg.m = "get_statements_range"
    /\ th[Main].pc \in {"done", "failed"}
    /\ rg' = IF th[Main].pc = "failed"
             THEN [rg EXCEPT !.pc = "failed", !.err = th[Main].err]
             ELSE [rg EXCEPT !.buff = Append(@, th[Main].ret),
                             !.i = @ + 1,
                             !.pc = "for"]
    /\ fs' = fs
    /\ th' = [th EXCEPT ![Main] = IdleFrame]
    /\ UNCHANGED <<served, refresh_token, id_token, id_token_expire, now, issued,
                   run, store>>

\* get_fins_statements has returned or raised: an exception ends the range
\* fetch; else, when cache_dir is set, the frame is written to the cache
\* file of the date (df.to_csv, which may raise), and the frame goes into
\* buff
statements_append ==
    /\ rg.pc = "unit"
    /\ rg.m = "get_statements_range"
    /\ th[Main].pc \in {"done", "failed"}
    /\ IF th[Main].pc = "failed"
       THEN /\ rg' = [rg EXCEPT !.pc = "failed", !.err = th[Main].err]
            /\ fs' = fs
       ELSE IF rg.cache_dir = ""
       THEN /\ rg' = [rg EXCEPT !.buff = Append(@, th[Main].ret),
                               !.i = @ + 1,
                               !.pc = "for"]
            /\ fs' = fs
       ELSE \E o \in {"written", "refused"} :
               IF o = "written"
               THEN /\ fs' = Put(fs, CacheFile(rg.dates[rg.i]),
                                 File(to_csv("get_fins_statements", th[Main].ret)))
                    /\ rg' = [rg EXCEPT !.buff = Append(@, th[Main].ret),
                                        !.i = @ + 1,
                                        !.pc = "for"]
               ELSE /\ fs' = fs
                    /\ rg' = [rg EXCEPT !.pc = "failed",
                                        !.err = Error("OSError", 0, "to_csv")]
    /\ th' = [th EXCEPT ![Main] = IdleFrame]
    /\ UNCHANGED <<served, refresh_token, id_token, id_token_expire, now, issued,
                   run, store>>

\* the steps of thread t inside a call of a method that has no loop over
\* the pages, against a server that answers the call for a date with records
\* of that date
StepNoLoop(t, outcomes, cap) ==
    \/ BaseHeaders(t)
    \/ get_refresh_token(t, outcomes)
    \/ store_refresh_token(t)
    \/ get_id_token(t)
    \/ auth_refresh(t, outcomes)
    \/ store_id_token(t)
    \/ store_expire(t)
    \/ return_id_token(t)
    \/ get_dated(t, outcomes, CodeValues, cap)
    \/ read(t)
    \/ normalize(t)

\* Cache: one thread calls get_statements_range, again and again, with and
\* without a cache directory; the server answers a call of
\* get_fins_statements with at most UnitRecords records of the date asked for
NextCache ==
    \/ CallStatements(RangeWindows["get_statements_range"], CacheDirs)
    \/ statements_for
    \/ StepNoLoop(Main, FewOutcomes, UnitRecords)
    \/ statements_append
    \/ range_return
    \/ ReturnRange

SpecCache == Init /\ [][NextCache]_vars

(***************************************************************************)
(* The token state (C1 to C3).                                             *)
(***************************************************************************)
\* _base_headers has built the header of thread t
HeaderBuilt(t) ==
    \/ th[t].pc = "send"
    \/ th[t].kind = "header" /\ th[t].pc = "done"

\* C1: a _base_headers call that finds the client as constructed (no refresh
\* token, no id token) makes one token/auth_user exchange, then one
\* token/auth_refresh exchange, and returns the token issued; a later call,
\* one that finds a refresh token held and the stored expiry still ahead,
\* makes no exchange and returns the token that was stored when it began.
C1_FirstUseThenCached ==
    \A t \in Threads :
        /\ (th[t].kind \in {"get", "header"} /\ th[t].pc = "auth_user")
              => th[t].n_auth_refresh = 0
        /\ HeaderBuilt(t) =>
              /\ th[t].fresh =>
                    /\ th[t].n_auth_user = 1
                    /\ th[t].n_auth_refresh = 1
                    /\ th[t].headers # NoToken
                    /\ th[t].headers = id_token
              /\ (th[t].entry_refresh # NoToken /\ th[t].was_valid) =>
                    /\ th[t].n_auth_user = 0
                    /\ th[t].n_auth_refresh = 0
                    /\ th[t].headers # NoToken
                    /\ th[t].headers = th[t].entry_id

\* a direct _base_headers call, made 22 hours or more after construction,
\* that found the token of an earlier call unexpired
C1_Witness ==
    /\ th[Main].kind = "header"
    /\ th[Main].pc = "done"
    /\ th[Main].was_valid
    /\ th[Main].headers # NoToken
    /\ now >= 22

\* C2: whenever a GET is being sent, its Authorization header holds a token
\* that was issued and whose expiry was later than the time at which the
\* header was built.
C2_HeaderTokenUnexpired ==
    \A t \in Threads :
        th[t].pc = "send" => th[t].headers # NoToken /\ th[t].hdr_valid

\* the GET of a continuation page whose header took a token/auth_refresh
\* exchange, the token of the first page having expired in between
C2_Witness ==
    /\ th[Main].pc = "send"
    /\ th[Main].site = "next"
    /\ ~th[Main].fresh
    /\ th[Main].n_auth_refresh = 1
    /\ th[Main].headers # NoToken

\* the token/auth_user (token/auth_refresh) exchanges of all threads
RECURSIVE Exchanges(_, _)
Exchanges(ts, kind) ==
    IF ts = {} THEN 0
    ELSE LET t == CHOOSE x \in ts : TRUE
         IN  (IF kind = "auth_user" THEN th[t].n_auth_user
              ELSE th[t].n_auth_refresh) + Exchanges(ts \ {t}, kind)

\* C3: when every thread has made its first _base_headers call on one fresh
\* client and all have their header, one token/auth_user exchange and one
\* token/auth_refresh exchange have been made in all.
C3_RefreshSerialized ==
    (\A t \in Threads : th[t].pc = "done")
        => /\ Exchanges(Threads, "auth_user") = 1
           /\ Exchanges(Threads, "auth_refresh") = 1

(***************************************************************************)
(* The retrying session (C4 to C6).                                        *)
(***************************************************************************)
\* the statuses the attempts of a request met, 0 standing for a timeout
Statuses(hist) == [i \in DOMAIN hist |-> hist[i].status]


\* C4 as stated: no request, whether its attempts meet retried statuses or
\* timeouts, is attempted more than 3 times (1 attempt and 2 retries).
C4_AtMostThreeAttempts ==
    \A t \in Threads : Len(th[t].hist) <= 3

\* C4: no request, whether its attempts meet retried statuses or timeouts,
\* is attempted more than 4 times (1 attempt and the 3 retries of
\* Retry(total=3)); a request that fails because its retries are used up has
\* been attempted exactly 4 times, and after the fourth attempt no other is
\* made.
C4_AtMostFourAttempts ==
    \A t \in Threads :
        LET f == th[t]
        IN  /\ Len(f.hist) <= RetryTotal + 1
            /\ (f.pc = "failed" /\ f.err.type \in {"RetryError", "ConnectionError"})
                  => Len(f.hist) = RetryTotal + 1
            /\ Len(f.hist) = RetryTotal + 1 => f.pc # f.req

\* a GET that failed after four attempts, two of which timed out and two of
\* which met a status of the forcelist
C4_Witness ==
    /\ th[Main].pc = "failed"
    /\ th[Main].req = "send"
    /\ th[Main].err.type = "RetryError"
    /\ Statuses(th[Main].hist) = << 0, 503, 0, 429 >>

\* C5: a GET whose first attempt, or whose first two attempts, met 503 is
\* attempted again; once its first two attempts have met 503 and the third
\* 200, no other attempt is made, the response is handed to the method, and
\* the call carries no exception of the session or of raise_for_status.
C5_Retried503ThenPayload ==
    \A t \in Threads :
        LET f == th[t]
        IN  f.req = "send" =>
              /\ Statuses(f.hist) \in {<< 503 >>, << 503, 503 >>}
                    => f.pc = "send" /\ f.err = NoError
              /\ Statuses(f.hist) = << 503, 503, 200 >>
                    => f.pc # "send" /\ f.err.type \notin HttpErrors

\* the method reads the body of a response that came at the third attempt,
\* after two 503
C5_Witness ==
    /\ th[Main].req = "send"
    /\ th[Main].pc = "read"
    /\ Statuses(th[Main].hist) = << 503, 503, 200 >>
    /\ ResultKey(th[Main].m) \in DOMAIN th[Main].body

\* a response with an error status that is not in the forcelist
NonListedError(o) ==
    /\ o.kind = "response"
    /\ o.status >= 400
    /\ o.status \notin status_forcelist

\* C6 as stated: once an attempt has met an error status outside the
\* forcelist, the request has failed with an HTTPError that carries that
\* status, and no other attempt is made.
C6_NonListedNeverRetried ==
    \A t \in Threads :
        LET f == th[t]
        IN  (f.hist # << >> /\ NonListedError(Last(f.hist)))
                => /\ f.pc = "failed"
                   /\ f.err = Error("HTTPError", Last(f.hist).status, f.req)

\* C6: once an attempt has met an error status outside the forcelist, other
\* than a 413 that came with a Retry-After header, the request has failed
\* with an HTTPError that carries that status, and no other attempt is made;
\* when that response was the first, the request was attempted once.
C6_NonListedFailsAtOnce ==
    \A t \in Threads :
        LET f == th[t]
        IN  (/\ f.hist # << >>
             /\ NonListedError(Last(f.hist))
             /\ ~(Last(f.hist).retry_after
                    /\ Last(f.hist).status \in RETRY_AFTER_STATUS_CODES))
                => /\ f.pc = "failed"
                   /\ f.err = Error("HTTPError", Last(f.hist).status, f.req)

\* a GET that failed with the HTTPError of a 501 at its only attempt
C6_Witness ==
    /\ th[Main].pc = "failed"
    /\ th[Main].req = "send"
    /\ Statuses(th[Main].hist) = << 501 >>
    /\ th[Main].err = Error("HTTPError", 501, "send")

(***************************************************************************)
(* The pages (C7 to C9).                                                   *)
(***************************************************************************)
\* C7: in a paginated method, the array in the result field of every page
\* that carries one is appended to the records got so far; after a page with
\* a pagination_key the method asks for another page with that key in
\* params, after a page without one it leaves the loop with the records got.
C7_PagesConcatenatedInOrder ==
    [][\A t \in Threads :
          LET f == th[t]
              g == th'[t]
          IN  /\ (f.pc = "read" /\ Paginated(f.m)
                        /\ ResultKey(f.m) \in DOMAIN f.body)
                    => /\ g.pc = "while"
                       /\ g.data = f.data \o f.body[ResultKey(f.m)]
              /\ (f.pc = "while" /\ g.pc # "while")
                    => IF "pagination_key" \in DOMAIN f.body
                       THEN /\ g.pc = "base_headers"
                            /\ g.site = "next"
                            /\ g.params = [k \in {"pagination_key"} |->
                                             f.body["pagination_key"]]
                            /\ g.data = f.data
                       ELSE /\ g.pc = "normalize"
                            /\ g.data = f.data]_vars

\* C8: every page, the first and the later ones, is read from the result
\* field of the endpoint, and no read of a later page that carries that
\* field fails.
C8_SameResultField ==
    \A t \in Threads :
        LET f == th[t]
        IN  /\ f.pc = "read" => ReadKey(f.m, f.site) = ResultKey(f.m)
            /\ (f.pc = "failed" /\ f.err.at = "read" /\ f.site = "next")
                  => ResultKey(f.m) \notin DOMAIN f.body

\* C9: a call that has entered the pagination loop comes to return or to
\* fail, whatever the server sends.
C9_PaginationTerminates ==
    (th[Main].pc = "while") ~> (th[Main].pc \in {"done", "failed"})

(***************************************************************************)
(* The columns of the frame returned (C10).                                *)
(***************************************************************************)
\* C10: the frame a method returns, with rows or without, has the columns
\* of the frame the method returns for no records, which are the columns
\* the method declares under its plan flag; for no records the method
\* returns a frame, and every row of a frame returned has those columns.
C10_SameColumnsEmptyOrNot ==
    \A t \in Threads :
        LET f     == th[t]
            empty == Normalize(f.m, f.flag, << >>)
        IN  (f.kind = "get" /\ f.pc = "done") =>
              /\ empty.err = ""
              /\ Len(empty.df.rows) = 0
              /\ f.ret.columns = empty.df.columns
              /\ f.ret.columns = Cols(f.m, f.flag)
              /\ Len(f.ret.rows) = Len(f.data)
              /\ \A i \in DOMAIN f.ret.rows :
                    DOMAIN f.ret.rows[i] = Range(f.ret.columns)

\* get_prices_daily_quotes, without the premium plan, has returned a frame
\* of two rows made from records that hold more fields than it declares
C10_Witness ==
    /\ th[Main].kind = "get"
    /\ th[Main].pc = "done"
    /\ th[Main].m = "get_prices_daily_quotes"
    /\ ~th[Main].flag
    /\ Len(th[Main].ret.rows) = 2
    /\ \E i \in DOMAIN th[Main].data :
          UndeclaredField \in DOMAIN th[Main].data[i]

(***************************************************************************)
(* The range fetches (C11, C12).                                           *)
(***************************************************************************)
\* the number of rows of the frames of a list
RECURSIVE TotalRows(_)
TotalRows(buff) ==
    IF Len(buff) = 0 THEN 0
    ELSE Len(buff[Len(buff)].rows) + TotalRows(SubSeq(buff, 1, Len(buff) - 1))

\* C11: a range fetch that returns has returned None if the frames of its
\* dates hold no row in all, whatever the number of dates, and a frame that
\* holds all their rows otherwise.
C11_NoneIffNoRows ==
    rg.pc = "done" =>
        /\ rg.none <=> TotalRows(rg.buff) = 0
        /\ ~rg.none => Len(rg.ret.rows) = TotalRows(rg.buff)

\* C12: while a range fetch runs, every date before the one at hand has its
\* frame in buff, and a range fetch that returns has a frame for each of its
\* dates; a range fetch that has failed carries the exception of an
\* endpoint call, made for the date at hand, has returned neither a frame
\* nor None, and calls the endpoint method no more.
C12_UnitFailureAborts ==
    /\ rg.pc \in {"for", "unit", "return", "done", "failed"}
          => Len(rg.buff) = rg.i - 1
    /\ rg.pc \in {"return", "done"} => Len(rg.buff) = Len(rg.dates)
    /\ rg.pc = "failed" =>
          /\ rg.i <= Len(rg.dates)
          /\ rg.err.type \in HttpErrors \cup {"KeyError", "ValueError"}
          /\ rg.err.at \in {"auth_user", "auth_refresh", "send", "read", "normalize"}
          /\ ~rg.none
          /\ rg.ret = EmptyFrame(<< >>)
          /\ th[Main].pc = "idle"

\* get_price_range over two dates has failed at the first, with the
\* RetryError of a GET that met 503 at each of its four attempts
C12_Witness ==
    /\ rg.pc = "failed"
    /\ rg.m = "get_price_range"
    /\ Len(rg.dates) = 2
    /\ rg.i = 1
    /\ rg.err = Error("RetryError", 503, "send")

(***************************************************************************)
(* The update scripts (C13 to C20).                                        *)
(***************************************************************************)
\* has the section at hand computed its window
WindowKnown == run.pc \notin {"idle", "load", "window"}

\* C13: in a section of any script whose start_dt is later than its end_dt,
\* the client makes no call (the thread of the script is in no endpoint
\* method and no token exchange, and a range fetch, where main.py enters
\* one, has no date), nothing is merged, written, uploaded or removed, the
\* files and the store are what they were when the section began, and the
\* section ends with no new data: it does not fail.
C13_EmptyWindowNoCall ==
    (WindowKnown /\ run.start_dt > run.end_dt) =>
        /\ th[Main] = IdleFrame
        /\ rg.dates = << >>
        /\ rg.buff = << >>
        /\ run.pc \in {"fetch", "next", "done"}
        /\ run.pc = "fetch" => run.script = "main"
        /\ run.pc \in {"next", "done"} => run.outcome = "no_new_data"
        /\ fs = run.before.fs
        /\ store = run.before.store

\* the dates of the rows of a frame, in the order of its rows
Dates(rows) == [i \in DOMAIN rows |-> rows[i]["Date"]]

\* are the rows in ascending order of Date: every row has a Date, and none
\* comes before a row of an earlier Date
Ascending(rows) ==
    /\ \A i \in DOMAIN rows : rows[i]["Date"] # NaN
    /\ \A i, j \in DOMAIN rows : i < j => rows[i]["Date"] <= rows[j]["Date"]

\* does no key of subset occur in two of the rows
UniqueKeys(rows, subset) ==
    \A i, j \in DOMAIN rows : i < j => ~SameKey(rows[i], rows[j], subset)

\* the price section of main_local.py reads the clock on 2024-03-05 at 10,
\* in a script started then or the evening before, on an artifact whose
\* last date is 2024-03-01
C14_Scenario ==
    /\ run.script = "main_local"
    /\ run.table = "price"
    /\ run.clock = Ts(Day(20240305), 10)
    /\ run.pc \notin {"idle", "load", "failed"}
    /\ Last(run.prior.rows)["Date"] = Day(20240301)

\* the rows fetched are rows of dates of the window
FetchedInWindow ==
    \A r \in Range(run.new.rows) :
        /\ r["Date"] # NaN
        /\ run.start_dt <= Ts(r["Date"], 0)
        /\ Ts(r["Date"], 0) <= run.end_dt

\* C14: in that run the window is 2024-03-02 00:00 to 2024-03-04 10:00 and
\* the dates asked for are 2024-03-02, 2024-03-03 and 2024-03-04; and when
\* the section has persisted rows fetched that are rows of dates of the
\* window, the one price artifact is the file written
\* by the run, its rows are rows of the prior artifact and rows fetched,
\* with a row for every (Code, Date) of either, they are in ascending order
\* of Date, and no (Code, Date) occurs twice.
C14_PriceWindowAndMerge ==
    C14_Scenario =>
        /\ WindowKnown =>
              /\ run.start_dt = Ts(Day(20240302), 0)
              /\ run.end_dt = Ts(Day(20240304), 10)
        /\ (run.pc = "fetch" /\ rg.pc # "idle") =>
              rg.dates = << Ts(Day(20240302), 0), Ts(Day(20240303), 0),
                            Ts(Day(20240304), 0) >>
        /\ (run.pc = "next" /\ run.outcome = "persisted" /\ FetchedInWindow) =>
              LET p == Path("price", run.save_date)
              IN  /\ Glob("price") = {p}
                  /\ fs[p].whole
                  /\ Range(fs[p].df.rows)
                        \subseteq Range(run.prior.rows) \cup Range(run.new.rows)
                  /\ \A r \in Range(run.prior.rows) \cup Range(run.new.rows) :
                        \E k \in DOMAIN fs[p].df.rows :
                           SameKey(fs[p].df.rows[k], r, << "Code", "Date" >>)
                  /\ Ascending(fs[p].df.rows)
                  /\ UniqueKeys(fs[p].df.rows, << "Code", "Date" >>)

\* the run has persisted the rows of 2024-03-01, 2024-03-02 and 2024-03-04:
\* the server had rows for 2024-03-02 and 2024-03-04 and none for 2024-03-03
C14_Witness ==
    /\ C14_Scenario
    /\ run.pc = "next"
    /\ run.outcome = "persisted"
    /\ Path("price", 20240305) \in DOMAIN fs
    /\ Dates(fs[Path("price", 20240305)].df.rows)
          = << Day(20240301), Day(20240302), Day(20240304) >>
    /\ Dates(run.new.rows) = << Day(20240302), Day(20240304) >>

\* is every row of new that is the last of its key in new found in rows,
\* with the values new gives it
NewestKept(rows, new, subset) ==
    \A i \in DOMAIN new :
        (\A j \in DOMAIN new : j > i => ~SameKey(new[i], new[j], subset))
            => \E k \in DOMAIN rows :
                  \A c \in DOMAIN new[i] : rows[k][c] = new[i][c]

\* C15: whatever scripts have run, every artifact that is a whole file
\* holds no business key twice and has its rows in ascending order of Date,
\* and the table of the store holds no (code, date) twice; and the dataset
\* a section has just written holds, for every key of the rows fetched, the
\* row fetched last with that key, so that a prior row of that key is gone.
C15_OneRowPerKeyNewestWins ==
    /\ \A p \in DOMAIN fs :
          fs[p].whole =>
              /\ UniqueKeys(fs[p].df.rows, MergeKey(p.table))
              /\ Ascending(fs[p].df.rows)
    /\ UniqueKeys(store.rows, << "code", "date" >>)
    /\ run.pc = "remove" =>
          NewestKept(fs[Path(run.table, run.save_date)].df.rows,
                     run.new.rows, MergeKey(run.table))
    /\ (run.script = "main_s3" /\ run.pc = "next" /\ run.outcome = "persisted") =>
          NewestKept(store.rows, run.new.rows, << "code", "date" >>)

\* the frames a second MERGE of the merged dataset df with the fetch new
\* gives, reduce_mem_usage included, one for each dtype the columns of values
\* may have
MergedAgain(df, new, subset, by) ==
    {LET again == Merge(df, new, subset, by)
     IN  reduce_mem_usage(again, dtypes(again.columns, ty)) : ty \in ValueDtypes}

\* C16: MERGE is idempotent.  For every table and script, every artifact P
\* and every fetch N, keys shared and keys twice included: merging the
\* merged dataset with N once more gives the merged dataset again, row for
\* row and in the same order.
C16_MergeIdempotent ==
    /\ run.pc = "write" =>
          MergedAgain(run.df, run.new, MergeKey(run.table), "Date") = {run.df}
    /\ run.pc = "upload" =>
          MergedAgain(run.df, run.new, << "code", "date" >>, "date") = {run.df}

\* what holds of a second MERGE of frames too short for the sort to split
\* them: it gives the merged dataset again, row for row
C16_IdempotentOnShortFrames ==
    Len(run.df.rows) + Len(run.new.rows) <= SMALL_QUICKSORT + 1 =>
        /\ run.pc = "write" =>
              MergedAgain(run.df, run.new, MergeKey(run.table), "Date") = {run.df}
        /\ run.pc = "upload" =>
              MergedAgain(run.df, run.new, << "code", "date" >>, "date") = {run.df}

\* what holds of a second MERGE of any frames: it gives the rows of the
\* merged dataset, in ascending order of Date; the order of the rows of one
\* Date is the one thing that may differ
C16_SameRowsAgain ==
    /\ run.pc = "write" =>
          \A again \in MergedAgain(run.df, run.new, MergeKey(run.table), "Date") :
              /\ again.columns = run.df.columns
              /\ Len(again.rows) = Len(run.df.rows)
              /\ Range(again.rows) = Range(run.df.rows)
              /\ \A i \in DOMAIN again.rows :
                    again.rows[i]["Date"] = run.df.rows[i]["Date"]
    /\ run.pc = "upload" =>
          \A again \in MergedAgain(run.df, run.new, << "code", "date" >>, "date") :
              /\ again.columns = run.df.columns
              /\ Len(again.rows) = Len(run.df.rows)
              /\ Range(again.rows) = Range(run.df.rows)
              /\ \A i \in DOMAIN again.rows :
                    again.rows[i]["date"] = run.df.rows[i]["date"]

\* C17: a dataset that reaches PERSIST after a MERGE has as many columns as
\* the dataset LOAD_PRIOR read: a merge that the fetch has widened by a
\* column is never handed to the write or to the upload.
C17_NoWideningPersisted ==
    run.pc \in {"write", "upload"} =>
        Len(run.df.columns) = Len(run.prior.columns)

\* C18: when the rows fetched have fewer columns than the dataset
\* LOAD_PRIOR read, MERGE raises and nothing is persisted: no section, of
\* any script, is past its MERGE with such a fetch.
C18_NarrowFetchRejected ==
    (/\ run.new.rows # << >>
     /\ Len(run.new.columns) < Len(run.prior.columns))
        => /\ run.pc \notin {"write", "remove", "upload"}
           /\ ~(run.pc = "next" /\ run.outcome = "persisted")

\* C19: when the write of the new artifact has failed, the previous artifact
\* is still there and still holds the dataset LOAD_PRIOR read.
C19_FailedWriteKeepsPrevious ==
    (run.pc = "failed" /\ run.err.at = "write") =>
        /\ run.path \in DOMAIN fs
        /\ fs[run.path].whole
        /\ fs[run.path].df = run.prior

\* the steps of a section that PERSIST is made of, and the notification
\* that follows it
PersistSteps == {"write", "remove", "upload", "notify"}

\* C20: when a section has failed at a step before PERSIST (the token
\* exchange, a page or a date unit of FETCH, LOAD_PRIOR, MERGE), the files
\* and the store are exactly what they were when the section began.
C20_FailureBeforePersistChangesNothing ==
    (run.pc = "failed" /\ run.err.at \notin PersistSteps) =>
        /\ fs = run.before.fs
        /\ store = run.before.store

\* the price section of main_local.py has failed in its FETCH, after the
\* list section has persisted
C20_Witness ==
    /\ run.pc = "failed"
    /\ run.err.at \notin PersistSteps \cup {"load", "merge"}
    /\ run.script = "main_local"
    /\ run.table = "price"
    /\ run.start_dt <= run.end_dt
    /\ Path("list", run.save_date) \in DOMAIN fs
    /\ fs # PriorDir("upto0301")

\* the steps of a section that are neither its FETCH nor its PERSIST
OtherSteps == {"load", "merge", "notify"}

\* has a message with the table of the section and its window been handed
\* to discord_notify
WindowNotified ==
    \E i \in DOMAIN run.sent :
        /\ run.sent[i].note.table = run.table
        /\ run.sent[i].note.window
              = << strftime(run.start_dt), strftime(run.end_dt) >>

\* C21: when the FETCH or the PERSIST of a section has failed, a message
\* with the table and the window of the section has been handed to the
\* notifier by the time the exception leaves the script.
C21_FailureNotified ==
    (run.pc = "failed" /\ run.err.at \notin OtherSteps) => WindowNotified

\* C22: a section whose FETCH has yielded no row does not go on to MERGE or
\* PERSIST; it ends as no_new_data with a message handed to the notifier
\* and with the files and the store as they were.
C22_NoNewDataNotifiedNothingWritten ==
    /\ run.pc \in {"merge", "write", "remove", "upload"} => run.new.rows # << >>
    /\ (run.pc = "next" /\ run.outcome = "persisted") => run.new.rows # << >>
    /\ (run.pc = "next" /\ run.none) =>
          /\ run.outcome = "no_new_data"
          /\ WindowNotified
          /\ fs = run.before.fs
          /\ store = run.before.store

\* the start date of a table that has no data yet: 2024-01-01
InitialStart == Ts(Day(20240101), 0)

\* has LOAD_PRIOR of the section found no data: no artifact of the table,
\* or no row of the month in the store
NoPriorData ==
    IF run.script = "main_s3"
    THEN Queried(run.before.store, MonthStart(DayOf(run.clock)), {Symbol}) = << >>
    ELSE \A p \in DOMAIN run.before.fs : p.table # run.table

\* C23: a section that finds no persisted data of its table does not fail
\* in LOAD_PRIOR: once past it, it has an empty prior dataset and start_dt
\* at the initial start date.
C23_FreshTableLoads ==
    (NoPriorData /\ run.pc \notin {"idle", "load"}) =>
        /\ ~(run.pc = "failed" /\ run.err.at = "load")
        /\ run.prior.rows = << >>
        /\ run.start_dt = InitialStart

\* C24: no script is ended by an exception of the notifier: whatever a
\* discord_notify meets, the section goes on.
C24_NotifierNeverRaises ==
    ~(run.pc = "failed" /\ run.err.at = "notify")

\* C25: main_s3.py hands upload no dataset without symbol, dt and
\* partition_dt, after its merge and in its branch FETCH_ALL_DATA alike;
\* and a call of upload with a dataset that lacks one of them ends in
\* ValueError with the store as it was.
C25_UploadNeedsThreeColumns ==
    /\ (run.script = "main_s3" /\ run.pc = "upload") =>
          UploadCols \subseteq Range(run.df.columns)
    /\ (/\ ~(UploadCols \subseteq Range(run.df.columns))
        /\ run.pc \notin {"call", "merge", "upload"}) =>
          /\ run.pc = "failed"
          /\ run.err.type = "ValueError"
          /\ store = run.before.store

\* upload has been called with a dataset of some rows that has dt and
\* partition_dt and no symbol, on a table that has rows
C25_Witness ==
    /\ run.pc = "failed"
    /\ run.err.at = "call"
    /\ run.df.rows # << >>
    /\ UploadCols \ Range(run.df.columns) = {"symbol"}
    /\ store.rows # << >>

\* is the row r found in rows, with its values in the columns it has
RowKept(rows, r) ==
    \E k \in DOMAIN rows : \A c \in DOMAIN r : rows[k][c] = r[c]

\* the rows the table had when the section began that no fetched row has
\* the key of
Surviving ==
    {r \in Range(run.before.store.rows) :
        \A n \in Range(run.new.rows) : ~SameKey(r, n, << "code", "date" >>)}

\* C26: the dataset main_s3.py hands to upload holds, for each partition it
\* has a row of, every row the table had in that partition that no fetched
\* row replaces; and after the upload every such row of the table, of any
\* partition, is still in the table.
C26_UploadKeepsPartitionRows ==
    /\ (run.script = "main_s3" /\ run.pc = "upload") =>
          \A r \in Surviving :
              << r["partition_dt"], r["symbol"] >> \in Partitions(run.df.rows)
                  => RowKept(run.df.rows, r)
    /\ (run.script = "main_s3" /\ store # run.before.store) =>
          \A r \in Surviving : RowKept(store.rows, r)

\* an upload has been made to a table that had a row of February and a row
\* of March: the partition of March was written, that of February was not
C26_Witness ==
    /\ run.script = "main_s3"
    /\ run.pc = "next"
    /\ run.outcome = "persisted"
    /\ store # run.before.store
    /\ \E r \in Surviving : r["partition_dt"] = Day(20240201)
    /\ \E r \in Surviving : r["partition_dt"] = Day(20240301)
    /\ \A r \in Range(run.df.rows) : r["partition_dt"] = Day(20240301)

\* C27: a frame returned by a method with a plan flag has the columns of
\* the higher plan when the flag enables them, and has none of them when it
\* does not.
C27_PlanColumnsIffEnabled ==
    \A t \in Threads :
        (th[t].pc = "done" /\ th[t].kind = "get" /\ HasPlanFlag(th[t].m)) =>
            \A c \in Range(PlanCols(th[t].m)) :
                c \in Range(th[t].ret.columns)
                    <=> PlanEnabled(th[t].m, th[t].flag)

\* the days of the window of the section that its fetch has to ask for:
\* those whose midnight is in [start_dt, end_dt], for the list the Mondays
\* among them
WindowDays ==
    {d \in DayOf(run.start_dt)..DayOf(run.end_dt) :
        /\ run.start_dt <= Ts(d, 0)
        /\ Ts(d, 0) <= run.end_dt
        /\ run.table = "list" => Weekday(d) = 0}

\* C28: in a range fetch over a window that starts at midnight, the dates
\* of the loop are the days of the window (for the list its Mondays), each
\* once and in ascending order; the call under way is the one for the date
\* the loop is at, and every date before it has had its one call.
C28_RangeAsksEachDayOnce ==
    (run.pc = "fetch" /\ rg.pc \notin {"idle", "failed"} /\ HourOf(run.start_dt) = 0) =>
        /\ {DayOf(rg.dates[k]) : k \in DOMAIN rg.dates} = WindowDays
        /\ \A j, k \in DOMAIN rg.dates : j < k => rg.dates[j] < rg.dates[k]
        /\ Len(rg.buff) = rg.i - 1
        /\ rg.pc = "unit" =>
              /\ rg.i \in DOMAIN rg.dates
              /\ th[Main].pc \notin {"idle"} =>
                    th[Main].params["date"] = strftime(Ts(DayOf(rg.dates[rg.i]), 0))

\* the price fetch over 2024-03-02 00:00 to 2024-03-04 10:00 has asked for
\* its three days
C28_Witness ==
    /\ run.pc = "fetch"
    /\ run.table = "price"
    /\ rg.pc = "return"
    /\ run.start_dt = Ts(Day(20240302), 0)
    /\ run.end_dt = Ts(Day(20240304), 10)
    /\ Len(rg.buff) = 3

\* the name of the date column of the prior dataset of the section
DateCol == IF run.script = "main_s3" THEN "date" ELSE "Date"

\* the latest date of the rows LOAD_PRIOR read
MaxDate ==
    CHOOSE d \in {r[DateCol] : r \in Range(run.prior.rows)} :
        \A r \in Range(run.prior.rows) : r[DateCol] <= d

\* C29: once LOAD_PRIOR is done, start_dt is the midnight that follows the
\* latest date of the prior dataset; and a fetch asks for every day after
\* that date that is not after end_dt (for the list, every such Monday),
\* whether or not an earlier run has asked for it.
C29_WindowStartsAfterMaxDate ==
    (run.pc \notin {"idle", "load", "failed"} /\ run.prior.rows # << >>) =>
        /\ run.start_dt = Ts(MaxDate, 0) + HoursPerDay
        /\ (run.pc = "fetch" /\ rg.pc \notin {"idle", "failed"}) =>
              \A d \in (MaxDate + 1)..DayOf(run.end_dt) :
                  (run.table = "list" => Weekday(d) = 0)
                      => \E k \in DOMAIN rg.dates : rg.dates[k] = Ts(d, 0)

\* C30: in every section, of the list, of the prices and of TOPIX, end_dt
\* is the time of the run less one day when its hour is before the cutoff,
\* and the time of the run otherwise.
C30_WindowEndCutoff ==
    (WindowKnown /\ ~(run.pc = "failed" /\ run.err.at = "load")) =>
        run.end_dt = IF HourOf(run.clock) < CutoffHour
                     THEN run.clock - HoursPerDay
                     ELSE run.clock

\* C31: a section that finds start_dt after end_dt ends without an error,
\* and no message "Failed to update" is handed to the notifier for it.
C31_EmptyWindowIsNoFailure ==
    (WindowKnown /\ run.start_dt > run.end_dt) =>
        /\ run.pc # "failed"
        /\ \A i \in DOMAIN run.sent :
              ~(/\ run.sent[i].note.table = run.table
                /\ run.sent[i].note.message = SkipMessage)

\* C32: the client is constructed without a token and without an exchange,
\* and once a refresh token is held no call of _base_headers (alone or
\* within _get) replaces it or is at the POST of token/auth_user, whatever
\* the token/auth_refresh exchanges met.
C32_RefreshTokenLazyOnce ==
    /\ refresh_token = NoToken /\ issued = 0 /\ th[Main].pc = "idle"
    /\ [][(refresh_token # NoToken /\ th'[Main].kind \in {"get", "header"}) =>
             /\ refresh_token' = refresh_token
             /\ th'[Main].pc # "auth_user"
             /\ th'[Main].n_auth_user <= th[Main].n_auth_user]_vars

\* a call that found the refresh token of an earlier call whose
\* token/auth_refresh had failed, made no token/auth_user exchange, and
\* failed at token/auth_refresh in its turn
C32_Witness ==
    /\ th[Main].pc = "failed"
    /\ th[Main].req = "auth_refresh"
    /\ ~th[Main].fresh
    /\ refresh_token # NoToken
    /\ id_token = NoToken
    /\ th[Main].n_auth_user = 0
    /\ th[Main].n_auth_refresh = 1

\* C33: no endpoint method goes on to build its frame, or returns it, from
\* a response that carries a pagination_key: every such response is followed
\* by a request for the next page.
C33_EveryEndpointFollowsCursor ==
    \A t \in Threads :
        th[t].pc \in {"normalize", "done"}
            => "pagination_key" \notin DOMAIN th[t].body

\* C34: when a section of a script has ended by an exception and the script
\* has sections after it, the next thing the script does is to begin the
\* section that follows.
C34_FailureEndsOnlyItsSection ==
    [][(/\ run.pc = "failed"
        /\ run.table # Last(Sections(run.script)))
           => /\ run'.pc = "load"
              /\ run'.script = run.script
              /\ run'.table # run.table]_vars

\* are the rows in ascending order of the columns of key
Sorted(rows, key) ==
    \A i, j \in DOMAIN rows : i < j => ~RowBefore(key, rows[j], rows[i], 1)

\* C35: when every call for a date was answered with records of that date
\* only, the frame a range fetch returns is in ascending order of the sort
\* key of its endpoint method over all its rows, and has the columns of the
\* frames of the single dates.
C35_RangeResultOrdered ==
    (rg.pc = "done" /\ ~rg.none) =>
        /\ Sorted(rg.ret.rows, SortKey(UnitMethod(rg.m)))
        /\ rg.ret.columns = Cols(UnitMethod(rg.m), RangeFlag(rg.m))

\* C36: while a request is being retried and no response so far carried a
\* Retry-After header, the session has slept before every retry, and before
\* the second retry longer than before the first.
C36_BackoffGrows ==
    \A t \in Threads :
        LET f == th[t]
        IN  (/\ f.pc \in {"send", "auth_user", "auth_refresh"}
             /\ \A k \in DOMAIN f.hist : ~f.hist[k].retry_after)
                => /\ \A k \in DOMAIN f.hist : get_backoff_time(k) > 0
                   /\ Len(f.hist) >= 2
                         => get_backoff_time(2) > get_backoff_time(1)

\* C37: when a section of a local script has written its artifact and
\* removed the old one, data/ holds exactly one file of the table, the one
\* named after the day of the run, and it holds the merged frame whole.
C37_OneArtifactAfterPersist ==
    (/\ run.pc = "next"
     /\ run.outcome = "persisted"
     /\ run.script \in {"main_local", "main"})
        => /\ Glob(run.table) = {Path(run.table, run.save_date)}
           /\ fs[Path(run.table, run.save_date)] = File(run.df)

\* C38: with threads interleaved in any way on one client, a header that
\* has been built carries a token that was issued; the stored expiry is
\* ahead of the clock only while a token is stored, and a step that changes
\* the expiry finds the token stored and leaves it.
C38_NoEmptyTokenReturned ==
    /\ [](\A t \in Threads : HeaderBuilt(t) => th[t].headers # NoToken)
    /\ [](id_token_expire > now => id_token # NoToken)
    /\ [][id_token_expire' # id_token_expire
             => id_token # NoToken /\ id_token' = id_token]_vars

\* thread t2 began on the client as constructed, found the expiry that t1
\* had stored in the meantime ahead of the clock, and built its header from
\* the stored token without an exchange of its own
C38_Witness ==
    /\ th["t2"].pc = "done"
    /\ th["t2"].fresh
    /\ th["t2"].was_valid
    /\ th["t2"].n_auth_refresh = 0
    /\ th["t2"].headers = id_token
    /\ id_token # NoToken
    /\ th["t1"].pc \in {"return_id_token", "done"}

\* C39: the step at which a token exchange fails changes none of the
\* refresh token, the id token and its expiry, and ends the call with the
\* exception, no header built; after a token/auth_user that failed within
\* _base_headers the refresh token is still empty, and a call that finds it
\* empty begins with token/auth_user.
C39_FailedExchangeKeepsTokens ==
    /\ [](\A t \in {Main} :
             (th[t].kind \in {"get", "header"}
                  /\ th[t].pc = "failed" /\ th[t].req = "auth_user")
                 => refresh_token = NoToken)
    /\ [][\A t \in {Main} :
             /\ (th[t].pc \in {"auth_user", "auth_refresh"}
                     /\ th'[t].pc = "failed")
                   => /\ refresh_token' = refresh_token
                      /\ id_token' = id_token
                      /\ id_token_expire' = id_token_expire
                      /\ th'[t].err.at = th[t].pc
                      /\ ~HeaderBuilt(t)'
             /\ (th[t].pc = "base_headers" /\ refresh_token = NoToken
                     /\ th'[t].pc # "base_headers")
                   => th'[t].pc = "auth_user"]_vars

\* a token/auth_refresh that failed on a body without idToken while the
\* token of an earlier call, expired by then, was stored: token and expiry
\* are as they were
C39_Witness ==
    /\ th[Main].pc = "failed"
    /\ th[Main].req = "auth_refresh"
    /\ th[Main].err.type = "KeyError"
    /\ id_token # NoToken
    /\ id_token_expire = TokenLifetime
    /\ id_token_expire <= now

\* the dates of the range fetch under way that it has dealt with
DatesDone == {rg.dates[k] : k \in 1..(rg.i - 1)}

\* C40: in a get_statements_range with a cache directory, get_fins_statements
\* is being called for a date only while that date has no cache file; every
\* date dealt with has its cache file, and a date that was fetched has the
\* frame fetched in it, rows or no rows; no cache file ever goes away; and a
\* date that has its file when the loop comes to it is read from the file
\* with no call made.
C40_CacheSparesRequests ==
    /\ []((rg.m = "get_statements_range" /\ rg.cache_dir # ""
              /\ rg.pc # "idle")
            => /\ rg.pc = "unit" => CacheFile(rg.dates[rg.i]) \notin DOMAIN fs
               /\ \A s \in DatesDone : CacheFile(s) \in DOMAIN fs
               /\ \A k \in 1..(rg.i - 1) :
                     rg.dates[k] \in Range(rg.fetched)
                        => fs[CacheFile(rg.dates[k])] =
                              File(to_csv("get_fins_statements", rg.buff[k]))
               /\ Range(rg.fetched) \subseteq Range(rg.dates)
               /\ Len(rg.fetched) <= Len(rg.dates))
    /\ [][/\ DOMAIN fs \subseteq DOMAIN fs'
          /\ (/\ rg.pc = "for"
              /\ rg.cache_dir # ""
              /\ rg.i <= Len(rg.dates)
              /\ CacheFile(rg.dates[rg.i]) \in DOMAIN fs)
                => /\ rg'.fetched = rg.fetched
                   /\ rg'.i = rg.i + 1
                   /\ th' = th]_vars

\* a call over two dates that returned without a call of get_fins_statements:
\* both frames came from the cache files, one of them a file without rows
C40_Witness ==
    /\ rg.pc = "done"
    /\ rg.cache_dir # ""
    /\ Len(rg.dates) = 2
    /\ rg.fetched = << >>
    /\ Len(rg.buff) = 2
    /\ Len(rg.buff[1].rows) = 1
    /\ Len(rg.buff[2].rows) = 0
====
